---- MODULE Spec2Model ----
(***************************************************************************)
(* SUBARUU: a line-numbered BASIC interpreter.                             *)
(*                                                                         *)
(* The model follows src/src/io.cc + src/include/io.h (the character       *)
(* cursor), src/src/tokenizer1.cc (the Tokenizer used by SUBARUU) and      *)
(* src/src/subaruu.cc (evaluator, statements, line map, driver loop).      *)
(* The source text is a TLA+ string; the cursor is an offset from begin(). *)
(***************************************************************************)
EXTENDS Integers, Sequences, FiniteSets, TLC

VARIABLES
    src,                 \* IO::content_ : the program text
    tokenizer_,          \* Tokenizer: [pos, tok, data] = io_ cursor, current_token_, token_data_
    variables_,          \* SUBARUU::variables_
    memory_,             \* SUBARUU::memory_ (a finite map index -> value)
    line_positions_,     \* SUBARUU::line_positions_ (its key set)
    execution_finished_, \* SUBARUU::execution_finished_
    out,                 \* what was written to std::cout
    err,                 \* message of the exception thrown out of run(), "" if none
    warnings,            \* number of E_WARNING messages written (saturating)
    pc,                  \* where the caller of the object is
    last,                \* history: the statement most recently dispatched
    prev,                \* history: the statement dispatched before that
    nexec,               \* history: per physical line, how often its statement ran (saturating)
    step,                \* history: parity of the number of steps run() has taken
    skip_to_line_,       \* VVTBI::skip_to_line_ (no member of SUBARUU)
    target_line_         \* VVTBI::target_line_ (no member of SUBARUU)

vars == <<src, tokenizer_, variables_, memory_, line_positions_,
          execution_finished_, out, err, warnings, pc, last, prev, nexec, step,
          skip_to_line_, target_line_>>

(***************************************************************************)
(* Program constants.                                                      *)
(***************************************************************************)
SUBARUU_STRING_LITERAL == 50
SUBARUU_NUMBER_LITERAL == 19
SUBARUU_MAX_VARIABLES == 26
SUBARUU_TERMINATE_ON_DIV_ZERO == FALSE

(***************************************************************************)
(* Bounds of the model.                                                    *)
(***************************************************************************)
MaxCount == 3      \* history counters saturate here
MaxLines == 2      \* generated programs have at most this many lines

(***************************************************************************)
(* A local variable of a C++ function: its initialiser is evaluated once,  *)
(* then the rest of the function body runs with the value.                 *)
(***************************************************************************)
Local(value, Rest(_)) == Rest(value)

(***************************************************************************)
(* Characters.                                                             *)
(***************************************************************************)
NUL == ""
Digits == "0123456789"
LowerCase == "abcdefghijklmnopqrstuvwxyz"
UpperCase == "ABCDEFGHIJKLMNOPQRSTUVWXYZ"

DigitChars == {SubSeq(Digits, i, i) : i \in 1..Len(Digits)}
LowerChars == {SubSeq(LowerCase, i, i) : i \in 1..Len(LowerCase)}
UpperChars == {SubSeq(UpperCase, i, i) : i \in 1..Len(UpperCase)}

\* ch - '0'
DigitOf == [c \in DigitChars |-> (CHOOSE i \in 1..Len(Digits) : SubSeq(Digits, i, i) = c) - 1]
UpperOf ==
    [c \in LowerChars |->
        LET i == CHOOSE j \in 1..Len(LowerCase) : SubSeq(LowerCase, j, j) = c
        IN  SubSeq(UpperCase, i, i)]
LowerOf ==
    [c \in UpperChars |->
        LET i == CHOOSE j \in 1..Len(UpperCase) : SubSeq(UpperCase, j, j) = c
        IN  SubSeq(LowerCase, i, i)]

isdigit(c) == c \in DigitChars
isupper(c) == c \in UpperChars
islower(c) == c \in LowerChars
isalpha(c) == isupper(c) \/ islower(c)
\* toupper that leaves every character as it is.
toupper_KeepsCase(c) == c
toupper(c) == IF islower(c) THEN UpperOf[c] ELSE c
tolower(c) == IF isupper(c) THEN LowerOf[c] ELSE c
\* Blanks that include the line feed.
IsBlank_WithLineFeed(c) == c = " " \/ c = "\t" \/ c = "\n"
IsBlank(c) == c = " " \/ c = "\t"

(***************************************************************************)
(* IO: the cursor over content_ (io.h 32-43, io.cc 54).                    *)
(***************************************************************************)
io_eof(p) == p = Len(src)
io_current(p) == IF p # Len(src) THEN SubSeq(src, p + 1, p + 1) ELSE NUL
io_next(p) == IF p # Len(src) THEN p + 1 ELSE p
io_reset == 0

\* while (!io_->eof() && (io_->current() == ' ' || io_->current() == '\t')) io_->next();
RECURSIVE SkipBlanks(_)
SkipBlanks(p) ==
    IF ~io_eof(p) /\ IsBlank(io_current(p)) THEN SkipBlanks(io_next(p)) ELSE p

(***************************************************************************)
(* Tokenizer (tokenizer1.cc).  Token payload: kind is "none" (monostate),  *)
(* "str", "num" or "chr".                                                  *)
(***************************************************************************)
NoData == [kind |-> "none", str |-> "", num |-> 0]
StrData(s) == [kind |-> "str", str |-> s, num |-> 0]
NumData(n) == [kind |-> "num", str |-> "", num |-> n]
ChrData(c) == [kind |-> "chr", str |-> c, num |-> 0]

Tok(p, k, d) == [pos |-> p, tok |-> k, data |-> d]

get_num(t) == IF t.data.kind = "num" THEN t.data.num ELSE 0
get_string(t) == IF t.data.kind = "str" THEN t.data.str ELSE ""
finished(t) == t.tok = "EOF_TOKEN"

\* token_string: the cursor is on the opening quote.
RECURSIVE StringLoop(_, _)
StringLoop(p, str) ==
    IF io_eof(p) THEN Tok(p, "STRING", StrData(str))
    ELSE IF io_current(p) = "\""
         THEN Tok(SkipBlanks(io_next(p)), "STRING", StrData(str))
         ELSE IF Len(str) >= SUBARUU_STRING_LITERAL
              THEN Tok(p, "STRING", StrData(str))
              ELSE StringLoop(io_next(p), str \o io_current(p))

token_string(t) == StringLoop(io_next(t.pos), "")

\* token_keyword: letters of either case are folded to upper case.
RECURSIVE KeywordLoop(_, _)
KeywordLoop(p, keyword) ==
    IF ~io_eof(p) /\ isalpha(io_current(p))
    THEN KeywordLoop(io_next(p), keyword \o toupper(io_current(p)))
    ELSE [pos |-> p, keyword |-> keyword]

token_keyword(t) ==
    Local(KeywordLoop(SkipBlanks(t.pos), ""), LAMBDA k :
        IF ~io_eof(k.pos) /\ k.keyword = "PRINT" /\ io_current(k.pos) = "$"
        THEN Tok(SkipBlanks(io_next(k.pos)), "PRINT_DOLLAR", t.data)
        ELSE IF k.keyword \in {"REM", "PRINT", "LET", "IF", "THEN", "GOTO", "TAB"}
             THEN Tok(SkipBlanks(k.pos), k.keyword, t.data)
             ELSE Tok(SkipBlanks(k.pos), "ERROR", t.data))

\* token_number: at most SUBARUU_NUMBER_LITERAL digits, else ERROR.
RECURSIVE NumberLoop(_, _)
NumberLoop(p, num_str) ==
    IF ~io_eof(p) /\ isdigit(io_current(p))
    THEN IF Len(num_str) >= SUBARUU_NUMBER_LITERAL
         THEN [pos |-> p, num_str |-> num_str, ok |-> FALSE]
         ELSE NumberLoop(io_next(p), num_str \o io_current(p))
    ELSE [pos |-> p, num_str |-> num_str, ok |-> TRUE]

RECURSIVE DecimalValue(_, _)
DecimalValue(num_str, value) ==
    IF num_str = "" THEN value
    ELSE DecimalValue(SubSeq(num_str, 2, Len(num_str)),
                      value * 10 + DigitOf[SubSeq(num_str, 1, 1)])

\* token_number that gives the digits read so far as the number when the
\* run is too long.
token_number_Truncates(t) ==
    Local(NumberLoop(SkipBlanks(t.pos), ""), LAMBDA n :
        IF n.num_str = ""
        THEN Tok(n.pos, "ERROR", t.data)
        ELSE Tok(SkipBlanks(n.pos), "NUMBER", NumData(DecimalValue(n.num_str, 0))))

token_number(t) ==
    Local(NumberLoop(SkipBlanks(t.pos), ""), LAMBDA n :
        IF ~n.ok \/ n.num_str = ""
        THEN Tok(n.pos, "ERROR", t.data)
        ELSE Tok(SkipBlanks(n.pos), "NUMBER", NumData(DecimalValue(n.num_str, 0))))

\* The character c at the cursor p decides; p1 is the cursor after it, c1 the
\* character there.
TokenAt(t, p, c, p1, c1) ==
    CASE c = "\n" -> Tok(p1, "EOL", t.data)
      [] c = "\r" ->
            Tok(IF ~io_eof(p1) /\ c1 = "\n" THEN io_next(p1) ELSE p1, "EOL", t.data)
      [] c = "\"" -> token_string([t EXCEPT !.pos = p])
      [] isdigit(c) -> token_number([t EXCEPT !.pos = p])
      [] isupper(c) -> token_keyword([t EXCEPT !.pos = p])
      [] islower(c) -> Tok(p1, "LETTER", ChrData(c))
      [] c = "," \/ c = ";" -> Tok(p1, "SEPARATOR", t.data)
      [] c = "=" -> Tok(p1, "EQUAL", t.data)
      [] c = "<" ->
            IF ~io_eof(p1) /\ c1 = "=" THEN Tok(io_next(p1), "LT_EQ", t.data)
            ELSE IF ~io_eof(p1) /\ c1 = ">" THEN Tok(io_next(p1), "NOT_EQUAL", t.data)
            ELSE Tok(p1, "LT", t.data)
      [] c = ">" ->
            IF ~io_eof(p1) /\ c1 = "=" THEN Tok(io_next(p1), "GT_EQ", t.data)
            ELSE Tok(p1, "GT", t.data)
      [] c = "+" -> Tok(p1, "PLUS", t.data)
      [] c = "-" -> Tok(p1, "MINUS", t.data)
      [] c = "*" -> Tok(p1, "ASTERISK", t.data)
      [] c = "/" -> Tok(p1, "SLASH", t.data)
      [] c = "(" -> Tok(p1, "LEFT_PAREN", t.data)
      [] c = ")" -> Tok(p1, "RIGHT_PAREN", t.data)
      [] c = "[" -> Tok(p1, "LEFT_BRACKET", t.data)
      [] c = "]" -> Tok(p1, "RIGHT_BRACKET", t.data)
      [] OTHER -> Tok(p1, "ERROR", t.data)

\* get_next_token without the test for the end of the input.
get_next_token_NoEofTest(t) ==
    Local(SkipBlanks(t.pos), LAMBDA p :
        TokenAt(t, p, io_current(p), io_next(p), io_current(io_next(p))))

get_next_token(t) ==
    IF io_eof(t.pos) THEN Tok(t.pos, "EOF_TOKEN", t.data)
    ELSE Local(SkipBlanks(t.pos), LAMBDA p :
             TokenAt(t, p, io_current(p), io_next(p), io_current(io_next(p))))

\* Tokenizer::Tokenizer: cursor at begin, ERROR, monostate, then the first token.
Tokenizer == get_next_token(Tok(io_reset, "ERROR", NoData))

\* reset() that leaves token_data_ as it is.
reset_KeepsPayload(t) == get_next_token(Tok(io_reset, t.tok, t.data))

\* Tokenizer::reset()
reset(t) == get_next_token(Tok(io_reset, t.tok, NoData))

\* Tokenizer::next_token()
next_token(t) ==
    IF finished(t) THEN t
    ELSE get_next_token([t EXCEPT !.pos = SkipBlanks(t.pos)])

\* Tokenizer::skip_to_eol()
RECURSIVE SkipLine(_)
SkipLine(p) ==
    IF ~io_eof(p) /\ io_current(p) # "\n" /\ io_current(p) # "\r"
    THEN SkipLine(io_next(p)) ELSE p

\* The cursor after the line end found at p, if there is one.
AfterLineEnd(p, p1) ==
    IF io_eof(p) THEN p
    ELSE IF io_current(p) = "\r"
         THEN IF ~io_eof(p1) /\ io_current(p1) = "\n" THEN io_next(p1) ELSE p1
         ELSE p1

\* skip_to_eol that stops in front of the line end.
skip_to_eol_KeepsLineEnd(t) ==
    Local(SkipLine(t.pos), LAMBDA p : get_next_token([t EXCEPT !.pos = p]))

skip_to_eol(t) ==
    Local(SkipLine(t.pos), LAMBDA p :
        get_next_token([t EXCEPT !.pos = AfterLineEnd(p, io_next(p))]))

(***************************************************************************)
(* SUBARUU: errors, accept, safe_divide (subaruu.cc 69-116).               *)
(* dprintf(.., E_ERROR) throws: the message is carried in the err field    *)
(* and every caller returns at once when it is set.                        *)
(***************************************************************************)
(* operator<< of a value_t: decimal text.                                  *)
(***************************************************************************)
RECURSIVE DecimalDigits(_)
DecimalDigits(n) ==
    IF n < 10 THEN SubSeq(Digits, n + 1, n + 1)
    ELSE DecimalDigits(n \div 10) \o SubSeq(Digits, (n % 10) + 1, (n % 10) + 1)

ToDecimal(n) == IF n < 0 THEN "-" \o DecimalDigits(-n) ELSE DecimalDigits(n)

(***************************************************************************)
NoErr == ""
E_Unexpected == "unexpected token"
E_Factor == "Syntax Error: Unexpected token in factor"
E_VarName == "Syntax Error: Expected variable name"
E_Then == "Syntax Error: Expected line number after THEN"
\* std::to_string of the int line number is part of the two jump messages.
E_NotFound(line_number) ==
    "Runtime Error: Line number " \o ToDecimal(line_number) \o " not found"
E_Internal(line_number) ==
    "Internal Error: Failed to find valid line number " \o ToDecimal(line_number)
E_Statement == "Syntax Error: Unrecognized statement"
E_DivZero == "Division by zero"

Letters == {SubSeq(LowerCase, i, i) : i \in 1..SUBARUU_MAX_VARIABLES}

\* Result of an evaluation: tokenizer after it, value, thrown message, warnings so far.
Val(t, v, w) == [t |-> t, val |-> v, err |-> NoErr, warn |-> w]
Throw(t, msg, w) == [t |-> t, val |-> 0, err |-> msg, warn |-> w]

accept(t, expectedToken, w) ==
    IF t.tok # expectedToken THEN Throw(t, E_Unexpected, w)
    ELSE Val(next_token(t), 0, w)

Abs(n) == IF n < 0 THEN -n ELSE n

\* A quotient rounded toward minus infinity.
Quotient_Floors(numerator, denominator) ==
    IF denominator < 0 THEN (-numerator) \div (-denominator) ELSE numerator \div denominator

\* cpp_int division truncates toward zero.
Quotient(numerator, denominator) ==
    LET q == Abs(numerator) \div Abs(denominator)
    IN  IF (numerator < 0) # (denominator < 0) THEN -q ELSE q

\* safe_divide under the other policy: a zero denominator is fatal.
safe_divide_Fatal(t, numerator, denominator, w) ==
    IF denominator = 0 THEN Throw(t, E_DivZero, w + 1)
    ELSE Val(t, Quotient(numerator, denominator), w)

safe_divide(t, numerator, denominator, w) ==
    IF denominator = 0
    THEN IF SUBARUU_TERMINATE_ON_DIV_ZERO
         THEN Throw(t, E_DivZero, w + 1)
         ELSE Val(t, 0, w + 1)
    ELSE Val(t, Quotient(numerator, denominator), w)

\* is_valid_line_number / is_line_number (subaruu.cc 429-444)
is_valid_line_number(num) == num >= 10 /\ num % 10 = 0
is_line_number(t) == t.tok = "NUMBER" /\ is_valid_line_number(get_num(t))
is_statement_end(token) == token = "EOL" \/ token = "EOF_TOKEN"

(***************************************************************************)
(* Evaluator: factor / term / expression / relation (subaruu.cc 128-257).  *)
(***************************************************************************)
RECURSIVE factor(_, _), TermLoop(_), term(_, _), ExpressionLoop(_), expression(_, _)

factor(t, w) ==
    IF t.tok = "NUMBER" THEN Local(next_token(t), LAMBDA t1 : Val(t1, get_num(t), w))
    ELSE IF t.tok = "LETTER"
    THEN Local(next_token(t), LAMBDA t1 :
             IF t1.tok = "LEFT_BRACKET"
             THEN Local(next_token(t1), LAMBDA t2 :
                  Local(expression(t2, w), LAMBDA idx :
                      IF idx.err # NoErr THEN idx
                      ELSE Local(accept(idx.t, "RIGHT_BRACKET", idx.warn), LAMBDA a :
                               IF a.err # NoErr THEN a
                               ELSE Val(a.t,
                                        IF idx.val \in DOMAIN memory_
                                        THEN memory_[idx.val] ELSE 0,
                                        a.warn))))
             ELSE Val(t1, variables_[tolower(t.data.str)], w))
    ELSE IF t.tok = "LEFT_PAREN"
    THEN Local(next_token(t), LAMBDA t1 :
         Local(expression(t1, w), LAMBDA e :
             IF e.err # NoErr THEN e
             ELSE Local(accept(e.t, "RIGHT_PAREN", e.warn), LAMBDA a :
                      IF a.err # NoErr THEN a ELSE Val(a.t, e.val, a.warn))))
    ELSE IF t.tok = "MINUS"
    THEN Local(next_token(t), LAMBDA t1 :
         Local(factor(t1, w), LAMBDA f :
             IF f.err # NoErr THEN f ELSE Val(f.t, -f.val, f.warn)))
    ELSE Throw(t, E_Factor, w)

TermLoop(r) ==
    IF r.err # NoErr THEN r
    ELSE IF r.t.tok = "ASTERISK" \/ r.t.tok = "SLASH"
    THEN Local(next_token(r.t), LAMBDA t1 :
         Local(factor(t1, r.warn), LAMBDA rhs :
             IF rhs.err # NoErr THEN rhs
             ELSE IF r.t.tok = "ASTERISK"
                  THEN Local(Val(rhs.t, r.val * rhs.val, rhs.warn), LAMBDA product :
                           TermLoop(product))
                  ELSE Local(safe_divide(rhs.t, r.val, rhs.val, rhs.warn), LAMBDA quotient :
                           TermLoop(quotient))))
    ELSE r

term(t, w) == Local(factor(t, w), LAMBDA f : TermLoop(f))

ExpressionLoop(r) ==
    IF r.err # NoErr THEN r
    ELSE IF r.t.tok = "PLUS" \/ r.t.tok = "MINUS"
    THEN Local(next_token(r.t), LAMBDA t1 :
         Local(term(t1, r.warn), LAMBDA rhs :
             IF rhs.err # NoErr THEN rhs
             ELSE IF r.t.tok = "PLUS"
                  THEN Local(Val(rhs.t, r.val + rhs.val, rhs.warn), LAMBDA sum :
                           ExpressionLoop(sum))
                  ELSE Local(Val(rhs.t, r.val - rhs.val, rhs.warn), LAMBDA difference :
                           ExpressionLoop(difference))))
    ELSE r

\* expression() applying the early stop to its first token.
expression_StopsFirst(t, w) ==
    IF t.tok = "NUMBER" /\ is_valid_line_number(get_num(t)) THEN Val(t, 0, w)
    ELSE Local(term(t, w), LAMBDA result :
             IF result.err # NoErr THEN result ELSE ExpressionLoop(result))

expression(t, w) ==
    Local(term(t, w), LAMBDA result :
        IF result.err # NoErr THEN result
        ELSE IF result.t.tok = "NUMBER" /\ is_valid_line_number(get_num(result.t))
        THEN result
        ELSE ExpressionLoop(result))

Bool(b) == IF b THEN 1 ELSE 0

\* A relation that knows equality only.
Compare_OnlyEqual(token, left, right) == left = right

\* The comparison selected by the token between the two operands.
Compare(token, left, right) ==
    CASE token = "EQUAL" -> left = right
      [] token = "LT" -> left < right
      [] token = "GT" -> left > right
      [] token = "LT_EQ" -> left <= right
      [] token = "GT_EQ" -> left >= right
      [] token = "NOT_EQUAL" -> left # right

relation(t, w) ==
    Local(expression(t, w), LAMBDA left :
        IF left.err # NoErr THEN left
        ELSE IF left.t.tok \in {"EQUAL", "LT", "GT", "LT_EQ", "GT_EQ", "NOT_EQUAL"}
        THEN Local(next_token(left.t), LAMBDA t1 :
             Local(expression(t1, left.warn), LAMBDA right :
                 IF right.err # NoErr THEN right
                 ELSE Val(right.t, Bool(Compare(left.t.tok, left.val, right.val)),
                          right.warn)))
        ELSE Val(left.t, Bool(left.val # 0), left.warn))

(***************************************************************************)
(* Line map and jumps (subaruu.cc 355-368, 499-525).                       *)
(***************************************************************************)
\* One turn of the loop of build_line_map; scan is the tokenizer, the
\* at_line_start flag and the keys recorded so far.
MapStep(scan) ==
    [t |-> next_token(scan.t),
     at_line_start |-> scan.t.tok = "EOL",
     map |-> IF /\ scan.at_line_start
                /\ scan.t.tok = "NUMBER"
                /\ is_valid_line_number(get_num(scan.t))
             THEN scan.map \cup {get_num(scan.t)}
             ELSE scan.map]

RECURSIVE MapLoop(_)
MapLoop(scan) == IF finished(scan.t) THEN scan ELSE MapLoop(MapStep(scan))

\* build_line_map without its closing reset().
build_line_map_NoReset(t) ==
    Local(MapLoop([t |-> reset(t), at_line_start |-> TRUE, map |-> {}]), LAMBDA scan :
        [t |-> scan.t, map |-> scan.map])

build_line_map(t) ==
    Local(MapLoop([t |-> reset(t), at_line_start |-> TRUE, map |-> {}]), LAMBDA scan :
        [t |-> reset(scan.t), map |-> scan.map])

RECURSIVE FindLoop(_, _, _)

\* find_target_line matching the number anywhere on a line.
FindLoop_AnyNumber(t, at_line_start, line_number) ==
    IF finished(t) THEN [t |-> t, found |-> FALSE]
    ELSE IF t.tok = "NUMBER" /\ get_num(t) = line_number
         THEN [t |-> next_token(t), found |-> TRUE]
         ELSE FindLoop(next_token(t), t.tok = "EOL", line_number)

\* Returns the tokenizer and whether the line was found.
FindLoop(t, at_line_start, line_number) ==
    IF finished(t) THEN [t |-> t, found |-> FALSE]
    ELSE IF at_line_start /\ t.tok = "NUMBER" /\ get_num(t) = line_number
         THEN [t |-> next_token(t), found |-> TRUE]
         ELSE FindLoop(next_token(t), t.tok = "EOL", line_number)

\* find_target_line whose at_line_start flag starts as false.
find_target_line_FlagUnset(t, line_number) == FindLoop(t, FALSE, line_number)

find_target_line(t, line_number) == FindLoop(t, TRUE, line_number)

(***************************************************************************)
(* Statements (subaruu.cc 265-346, 374-416, 452-477).  A statement yields  *)
(* the tokenizer, both stores, the output, the halted flag, the thrown     *)
(* message, the warnings, and for the history the jump target and whether  *)
(* the jump was taken.                                                     *)
(***************************************************************************)
Stmt(t, v, m, o, fin, e, w, target, taken) ==
    [t |-> t, vars |-> v, mem |-> m, out |-> o, fin |-> fin, err |-> e,
     warn |-> w, target |-> target, taken |-> taken]

\* A statement that changes nothing but the tokenizer.
Moved(t, w) == Stmt(t, variables_, memory_, out, execution_finished_, NoErr, w, 0, FALSE)

\* A statement whose exception is swallowed: run() goes on.
Thrown_Swallowed(r) == Moved(r.t, r.warn)

\* A statement that throws: r carries the message.
Thrown(r) == Stmt(r.t, variables_, memory_, out, execution_finished_, r.err, r.warn, 0, FALSE)

\* An assignment in which a write to x[i] is also a write to x.
Assign_OneAddressSpace(var_name, indexed, idx, value) ==
    IF value.err # NoErr
    THEN Stmt(value.t, variables_, memory_, out, execution_finished_, value.err,
              value.warn, 0, FALSE)
    ELSE Stmt(value.t, [variables_ EXCEPT ![var_name] = value.val],
              IF indexed
              THEN [i \in DOMAIN memory_ \cup {idx} |-> IF i = idx THEN value.val ELSE memory_[i]]
              ELSE memory_,
              out, execution_finished_, NoErr, value.warn, 0, FALSE)

\* An assignment in which the letter selects an array of its own: the cell
\* of x[i] lies 100 cells per letter away from the cell of a[i].
Assign_ArrayPerLetter(var_name, indexed, idx, value) ==
    IF value.err # NoErr THEN Thrown(value)
    ELSE IF indexed
    THEN Local(idx + 100 * ((CHOOSE n \in 1..26 : SubSeq(LowerCase, n, n) = var_name) - 1),
               LAMBDA cell :
             Stmt(value.t, variables_,
                  [i \in DOMAIN memory_ \cup {cell} |-> IF i = cell THEN value.val ELSE memory_[i]],
                  out, execution_finished_, NoErr, value.warn, 0, FALSE))
    ELSE Stmt(value.t, [variables_ EXCEPT ![var_name] = value.val], memory_,
              out, execution_finished_, NoErr, value.warn, 0, FALSE)

\* The assignment that ends let_statement.
Assign(var_name, indexed, idx, value) ==
    IF value.err # NoErr THEN Thrown(value)
    ELSE IF indexed
    THEN Stmt(value.t, variables_,
              [i \in DOMAIN memory_ \cup {idx} |-> IF i = idx THEN value.val ELSE memory_[i]],
              out, execution_finished_, NoErr, value.warn, 0, FALSE)
    ELSE Stmt(value.t, [variables_ EXCEPT ![var_name] = value.val], memory_,
              out, execution_finished_, NoErr, value.warn, 0, FALSE)

\* let_statement from accept(EQUAL) on; r is the evaluation so far.
LetValue(var_name, indexed, r) ==
    Local(accept(r.t, "EQUAL", r.warn), LAMBDA eq :
        IF eq.err # NoErr THEN Thrown(eq)
        ELSE Local(expression(eq.t, eq.warn), LAMBDA value :
                 Assign(var_name, indexed, r.val, value)))

let_statement(t) ==
    IF t.tok # "LETTER" THEN Thrown(Throw(t, E_VarName, 0))
    ELSE Local(next_token(t), LAMBDA t1 :
             IF t1.tok = "LEFT_BRACKET"
             THEN Local(next_token(t1), LAMBDA t2 :
                  Local(expression(t2, 0), LAMBDA idx :
                      IF idx.err # NoErr THEN Thrown(idx)
                      ELSE Local(accept(idx.t, "RIGHT_BRACKET", idx.warn), LAMBDA rb :
                               IF rb.err # NoErr THEN Thrown(rb)
                               ELSE LetValue(tolower(t.data.str), TRUE,
                                             Val(rb.t, idx.val, rb.warn)))))
             ELSE LetValue(tolower(t.data.str), FALSE, Val(t1, 0, 0)))

\* A jump that also clears the variables and the memory when it re-lexes.
Jump_ClearsStore(t, line_number, w) ==
    Stmt(find_target_line(reset(t), line_number).t, [l \in Letters |-> 0], <<>>, out,
         execution_finished_, NoErr, w, line_number, TRUE)

\* reset() and find_target_line() of a jump whose target is in the map.
Jump(t, line_number, w) ==
    Local(reset(t), LAMBDA t0 :
    Local(find_target_line(t0, line_number), LAMBDA f :
        Stmt(f.t, variables_, memory_, out, execution_finished_,
             IF f.found THEN NoErr ELSE E_Internal(line_number), w, line_number, TRUE)))

\* An IF that looks the target up before it tests the condition.
Branch_LooksUpFirst(t, cond, line_number, w) ==
    IF line_number \notin line_positions_
    THEN Stmt(t, variables_, memory_, out, execution_finished_,
              E_NotFound(line_number), w, line_number, cond # 0)
    ELSE IF cond # 0 THEN Jump(t, line_number, w)
    ELSE Stmt(IF t.tok = "EOL" THEN next_token(t) ELSE t, variables_, memory_,
              out, execution_finished_, NoErr, w, line_number, FALSE)

\* if_statement after the line number was read: t is the tokenizer past it.
Branch(t, cond, line_number, w) ==
    IF cond # 0
    THEN IF line_number \notin line_positions_
         THEN Stmt(t, variables_, memory_, out, execution_finished_,
                   E_NotFound(line_number), w, line_number, TRUE)
         ELSE Jump(t, line_number, w)
    ELSE Stmt(IF t.tok = "EOL" THEN next_token(t) ELSE t, variables_, memory_,
              out, execution_finished_, NoErr, w, line_number, FALSE)

if_statement(t) ==
    Local(accept(t, "IF", 0), LAMBDA a1 :
        IF a1.err # NoErr THEN Thrown(a1)
        ELSE Local(relation(a1.t, a1.warn), LAMBDA cond :
                 IF cond.err # NoErr THEN Thrown(cond)
                 ELSE Local(accept(cond.t, "THEN", cond.warn), LAMBDA a2 :
                          IF a2.err # NoErr THEN Thrown(a2)
                          ELSE IF a2.t.tok # "NUMBER"
                          THEN Thrown(Throw(a2.t, E_Then, a2.warn))
                          ELSE Local(next_token(a2.t), LAMBDA t3 :
                                   Branch(t3, cond.val, get_num(a2.t), a2.warn)))))

\* goto_statement without the look-up in line_positions_.
GotoLine_Unchecked(t, line_number) == Jump(t, line_number, 0)

\* goto_statement after accept(NUMBER) and the optional EOL: t is the tokenizer there.
GotoLine(t, line_number) ==
    IF line_number \notin line_positions_
    THEN Stmt(t, variables_, memory_, out, execution_finished_,
              E_NotFound(line_number), 0, line_number, TRUE)
    ELSE Jump(t, line_number, 0)

goto_statement(t) ==
    Local(accept(t, "GOTO", 0), LAMBDA a1 :
        IF a1.err # NoErr THEN Thrown(a1)
        ELSE Local(accept(a1.t, "NUMBER", 0), LAMBDA a2 :
                 IF a2.err # NoErr THEN Thrown(a2)
                 ELSE Local(IF a2.t.tok = "EOL" THEN next_token(a2.t) ELSE a2.t, LAMBDA t3 :
                          GotoLine(t3, get_num(a1.t)))))

\* A separator that writes nothing.
Separator_Silent(o) == o

\* case SEPARATOR: std::cout << " ";
Separator(o) == o \o " "

\* The item loop of print_statement; o is the output so far.
RECURSIVE PrintLoop(_, _, _, _)
PrintLoop(t, need_space, o, w) ==
    IF finished(t) \/ is_statement_end(t.tok) \/ is_line_number(t)
    THEN [t |-> t, out |-> o, err |-> NoErr, warn |-> w]
    ELSE IF t.tok = "STRING"
    THEN PrintLoop(next_token(t), TRUE,
                   o \o (IF need_space THEN " " ELSE "") \o get_string(t), w)
    ELSE IF t.tok = "SEPARATOR"
    THEN PrintLoop(next_token(t), FALSE, Separator(o), w)
    ELSE IF t.tok \in {"LETTER", "NUMBER", "LEFT_PAREN", "MINUS"}
    THEN Local(expression(t, w), LAMBDA e :
             IF e.err # NoErr
             THEN [t |-> e.t, out |-> o \o (IF need_space THEN " " ELSE ""),
                   err |-> e.err, warn |-> e.warn]
             ELSE PrintLoop(e.t, TRUE,
                            o \o (IF need_space THEN " " ELSE "") \o ToDecimal(e.val),
                            e.warn))
    ELSE [t |-> t, out |-> o, err |-> NoErr, warn |-> w]

\* print_statement halting on every final token.
PrintEnd_AlwaysHalts(p, o) ==
    IF p.err # NoErr
    THEN Stmt(p.t, variables_, memory_, p.out, execution_finished_, p.err, p.warn, 0, FALSE)
    ELSE Stmt(IF p.t.tok = "EOL" THEN next_token(p.t) ELSE p.t, variables_, memory_, o,
              TRUE, NoErr, p.warn, 0, FALSE)

\* print_statement after the item loop p: the newline, then the final token.
PrintEnd(p, o) ==
    IF p.err # NoErr
    THEN Stmt(p.t, variables_, memory_, p.out, execution_finished_, p.err, p.warn, 0, FALSE)
    ELSE IF is_line_number(p.t)
    THEN Stmt(p.t, variables_, memory_, o, execution_finished_, NoErr, p.warn, 0, FALSE)
    ELSE IF p.t.tok = "EOF_TOKEN"
    THEN Stmt(p.t, variables_, memory_, o, TRUE, NoErr, p.warn, 0, FALSE)
    ELSE IF p.t.tok = "EOL"
    THEN Stmt(next_token(p.t), variables_, memory_, o, execution_finished_, NoErr, p.warn, 0, FALSE)
    ELSE Stmt(p.t, variables_, memory_, o, execution_finished_, NoErr, p.warn, 0, FALSE)

print_statement(t) ==
    Local(accept(t, "PRINT", 0), LAMBDA a :
        IF a.err # NoErr THEN Thrown(a)
        ELSE Local(PrintLoop(a.t, FALSE, out, 0), LAMBDA p : PrintEnd(p, p.out \o "\n")))

\* statement(): the dispatch on the current token.
statement(t) ==
    IF t.tok = "REM" THEN Local(skip_to_eol(t), LAMBDA t1 : Moved(t1, 0))
    ELSE IF t.tok = "PRINT" THEN print_statement(t)
    ELSE IF t.tok = "IF" THEN if_statement(t)
    ELSE IF t.tok = "GOTO" THEN goto_statement(t)
    ELSE IF t.tok = "LET"
    THEN Local(accept(t, "LET", 0), LAMBDA a :
             IF a.err # NoErr THEN Thrown(a) ELSE let_statement(a.t))
    ELSE IF t.tok = "LETTER" THEN let_statement(t)
    ELSE Thrown(Throw(t, E_Statement, 0))

\* line_statement(): skip EOL tokens, then an optional leading number.
RECURSIVE SkipEOL(_)
SkipEOL(t) == IF t.tok = "EOL" THEN SkipEOL(next_token(t)) ELSE t

AfterLabel(t) == IF t.tok = "NUMBER" THEN next_token(t) ELSE t

(***************************************************************************)
(* History (not program state): which physical line a statement is on.     *)
(***************************************************************************)
IsLineEnd(i) ==
    \/ SubSeq(src, i, i) = "\n"
    \/ SubSeq(src, i, i) = "\r" /\ ~(i < Len(src) /\ SubSeq(src, i + 1, i + 1) = "\n")

\* The line holding the last of the first p characters (1 when p = 0).
LineOf(p) == 1 + Cardinality({i \in 1..p : IsLineEnd(i)})

NoStmt == [kind |-> "none", line |-> 0, target |-> 0, taken |-> FALSE, outLen |-> 0]

Saturate(n) == IF n < MaxCount THEN n + 1 ELSE MaxCount

(***************************************************************************)
(* Programs the interpreter is constructed on.                             *)
(***************************************************************************)
HelloWorld == "10 PRINT \"Hello, World!\""
IfForward == "10 LET a = 5\n20 IF a > 3 THEN 40\n30 PRINT \"no\"\n40 PRINT \"yes\"\n"
IfLoop ==
    "10 LET a = 1\n20 IF a < 3 THEN 40\n30 PRINT \"no\"\n40 LET a = a + 1\n50 IF a < 3 THEN 20\n60 PRINT \"done\"\n"
ValueOfA == "10 LET a = 5\n20 PRINT \"The value of a is: \", a\n30 PRINT \"Done!\"\n"
DivideByZero == "PRINT 5/0"
GotoSelf == "10 GOTO 10"
GotoBack == "10 LET a = 5\r\n20 REM again\r\n30 GOTO 10\r\n"
GotoBackOnce == "10 IF a > 0 THEN 40\n20 LET a = 1\n30 GOTO 10\n40 PRINT a; \"end\"\n"
CountDown == "10 LET a = a - 1\n20 IF a > 0 - 3 THEN 10\n30 PRINT a, a * a, (a + 1) / 2\n\n"
BlankTail == "10 REM quiet\n   "
DuplicateLabel == "10 GOTO 20\n20 PRINT \"x\"\n20 PRINT \"y\"\n"
FrameIf == "10 LET a = 4\n20 b[1] = 6\n30 IF a THEN 50\n40 REM r\n50 IF 0 THEN 10\n60 PRINT a b[2]\n"
FrameGoto == "10 LET a = 4\n20 b[1] = 6\n30 GOTO 50\n40 REM r\n50 REM s\n60 PRINT b[1]; a\n"
MemoryCells == "10 LET x[3] = 7\n20 x = 2\n30 y = x[3] + x[4]\n40 x[3] = y[3] + 1\n50 PRINT x[3]; y[4]; x; y\n"
ErrorAfterGoto == "10 GOTO 30 ?\n30 PRINT 1"
ErrorInPrint == "10 PRINT \"x\" ?"
\* IF without THEN, without a target, and with a statement behind the target.
IfSyntax ==
    {"10 IF " \o c \o tail : c \in {"0", "1"},
                            tail \in {" 30\n30 PRINT 1", " THEN a\n", " THEN\n30 PRINT 1",
                                      " THEN 30 PRINT 2\n\n30 PRINT 1"}}
\* A comment that holds a double quote.
RemQuote == "10 REM \"\n20 PRINT 1\n30 GOTO 20"

\* A REM line with each line end, and what may follow it.
RemTexts ==
    {"10 REM" \o c \o e \o rest : c \in {"", " a 20 ; b"},
                                 e \in {"\n", "\r", "\r\n", "\n\r"},
                                 rest \in {"", " ", "\n", " 20 PRINT 1", "PRINT 2\n"}}
    \cup {"10 REM", "10 REM x y", "REM\n\n\n20 PRINT 3", RemQuote}
\* A cell written under one letter and read under another.
SharedCell(x, i, y) ==
    "10 LET " \o x \o "[" \o i \o "] = 7\n20 PRINT " \o y \o "[" \o i \o "]; " \o x \o "; " \o y
SharedCells ==
    {SharedCell(x, i, y) : x \in {"a", "m", "z"}, i \in {"0", "3", "1+2"}, y \in {"a", "n", "z"}}
OddLabel == "15 PRINT \"x\"\n20 GOTO 15\n"

Scenarios ==
    {HelloWorld, IfForward, IfLoop, ValueOfA, DivideByZero,
     GotoSelf, GotoBack, GotoBackOnce, CountDown, BlankTail, DuplicateLabel,
     OddLabel, FrameIf, FrameGoto, MemoryCells, ErrorAfterGoto, ErrorInPrint}

\* PRINT of one quotient whose denominator evaluates to 0 (a..z and every
\* memory cell are 0 after construction).
ZeroDivisions ==
    {"PRINT " \o n \o "/" \o d \o e :
        n \in {"5", "0", "-7", "(1+2)", "a"},
        d \in {"0", "a", "(3-3)", "-0", "b[2]"},
        e \in {"", "\n"}}

\* LET a = n for multiples of ten n, alone or followed by a line labelled 20.
Tens == {10, 20, 30, 100, 1000}
LetTails == {"", "\n", "\n20 PRINT a"}
LetTen(n, e) == "10 LET a = " \o ToDecimal(n) \o e
LetTens == {LetTen(n, e) : n \in Tens, e \in LetTails}

Label(i) == ToDecimal(10 * i)

PlainBodies ==
    {"REM note", "PRINT \"x\", a", "PRINT \"x\"; \"y\" 7", "PRINT 20", "PRINT 20+1",
     "PRINT 7/a", "LET a = 20", "LET b = 5/0 + 1", "a = 0 - 3", "GOTO 25", "?"}

\* Jumps of line i go to line i itself, to a later line, or past the last line.
JumpBodies(i) ==
    UNION {{"GOTO " \o Label(j), "IF a < 5 THEN " \o Label(j), "IF a THEN " \o Label(j)} :
              j \in i..(MaxLines + 1)}

Bodies(i) == PlainBodies \cup JumpBodies(i)

\* Program texts made of lines i, i+1, ... with labels 10*i, 10*(i+1), ...
RECURSIVE LinesFrom(_)
LinesFrom(i) ==
    {Label(i) \o " " \o b \o e : b \in Bodies(i), e \in {"", "\n"}}
    \cup (IF i < MaxLines
          THEN {Label(i) \o " " \o b \o "\n" \o rest : b \in Bodies(i), rest \in LinesFrom(i + 1)}
          ELSE {})

\* IF with each relational operator, or none, between operands of known value.
RelOps == {"=", "<", ">", "<=", ">=", "<>"}
RelLeft == {-2, 2, 3, 10}
RelRight == {-2, 2, 10}
IfTail == " THEN 30\n20 PRINT 0\n30 PRINT 1"
RelProgram(l, op, r) == "10 IF " \o ToDecimal(l) \o op \o ToDecimal(r) \o IfTail
TruthProgram(l) == "10 IF " \o ToDecimal(l) \o IfTail
RelPrograms ==
    {RelProgram(l, op, r) : l \in RelLeft, op \in RelOps, r \in RelRight}
    \cup {TruthProgram(l) : l \in RelLeft \cup {0}}

\* Expression texts with the value the grammar gives them:
\* expression := term (('+' | '-') term)*, term := factor (('*' | '/') factor)*,
\* factor := number | '-' factor | '(' expression ')'.
Item(text, val) == [text |-> text, val |-> val]
Leaves == {Item("2", 2), Item("7", 7)}
Truncated(a, b) ==
    IF b = 0 THEN 0
    ELSE IF (a < 0) = (b < 0) THEN Abs(a) \div Abs(b) ELSE -(Abs(a) \div Abs(b))
Mul(a, op, b) ==
    Item(a.text \o op \o b.text, IF op = "*" THEN a.val * b.val ELSE Truncated(a.val, b.val))
Add(a, op, b) ==
    Item(a.text \o op \o b.text, IF op = "+" THEN a.val + b.val ELSE a.val - b.val)
Products(left, right) == {Mul(a, op, b) : a \in left, op \in {"*", "/"}, b \in right}
Sums(left, right) == {Add(a, op, b) : a \in left, op \in {"+", "-"}, b \in right}
\* Without parentheses: up to three factors, up to three terms.
FlatTerms == Leaves \cup Products(Leaves, Leaves)
FlatExpressions ==
    FlatTerms \cup Products(Products(Leaves, Leaves), Leaves)
              \cup Sums(FlatTerms, FlatTerms)
              \cup Sums(Sums(Leaves, Leaves), Leaves)
\* With a unary minus or a parenthesised sum or product as an operand.
Factors ==
    Leaves \cup {Item("-" \o f.text, -f.val) : f \in Leaves}
           \cup {Item("(" \o e.text \o ")", e.val) :
                     e \in Sums({Item("2", 2)}, Leaves) \cup Products({Item("7", 7)}, {Item("2", 2)})}
ExprSet == FlatExpressions \cup Products(Factors, Factors) \cup Sums(Factors, Factors)
ExprProgram(e) == "PRINT " \o e.text
ExprPrograms == {ExprProgram(e) : e \in ExprSet}
Arithmetic == "10 LET a = 5\n20 LET b = 3\n30 PRINT a/b (a+b)*2 a*b+8/2\n"

Programs == Scenarios \cup IfSyntax \cup RemTexts \cup SharedCells \cup ZeroDivisions \cup LetTens \cup LinesFrom(1) \cup RelPrograms \cup ExprPrograms \cup {Arithmetic}

(***************************************************************************)
(* The object after SUBARUU::SUBARUU(source) (subaruu.cc 21-27).           *)
(***************************************************************************)
Init ==
    /\ src \in Programs
    /\ tokenizer_ = Tokenizer
    /\ variables_ = [l \in Letters |-> 0]
    /\ memory_ = <<>>
    /\ line_positions_ = {}
    /\ execution_finished_ = FALSE
    /\ out = ""
    /\ err = NoErr
    /\ warnings = 0
    /\ pc = "constructed"
    /\ last = NoStmt
    /\ prev = NoStmt
    /\ nexec = [l \in 1..LineOf(Len(src)) |-> 0]
    /\ step = 0
    /\ skip_to_line_ = FALSE
    /\ target_line_ = -1

(***************************************************************************)
(* run() (subaruu.cc 32-41): build_line_map, then line_statement() until   *)
(* finished().                                                             *)
(***************************************************************************)
BuildLineMap ==
    /\ pc = "constructed"
    /\ \E b \in {build_line_map(tokenizer_)} :
           /\ line_positions_' = b.map
           /\ tokenizer_' = b.t
    /\ pc' = "running"
    /\ step' = 1 - step
    /\ UNCHANGED <<src, variables_, memory_, execution_finished_, out, err,
                   warnings, last, prev, nexec, skip_to_line_, target_line_>>

\* The loop finds the tokenizer finished.
TokenizerFinished ==
    /\ pc = "running"
    /\ finished(tokenizer_)
    /\ execution_finished_' = TRUE
    /\ pc' = "returned"
    /\ step' = 1 - step
    /\ UNCHANGED <<src, tokenizer_, variables_, memory_, line_positions_, out, err,
                   warnings, last, prev, nexec, skip_to_line_, target_line_>>

\* line_statement() finds end of input after the EOL tokens.
LineStatementEof ==
    /\ pc = "running"
    /\ ~finished(tokenizer_)
    /\ finished(SkipEOL(tokenizer_))
    /\ tokenizer_' = SkipEOL(tokenizer_)
    /\ execution_finished_' = TRUE
    /\ pc' = "returned"
    /\ step' = 1 - step
    /\ UNCHANGED <<src, variables_, memory_, line_positions_, out, err,
                   warnings, last, prev, nexec, skip_to_line_, target_line_>>

StatementKind(token) ==
    IF token \in {"REM", "PRINT", "IF", "GOTO"} THEN token
    ELSE IF token \in {"LET", "LETTER"} THEN "LET"
    ELSE "other"

\* line_statement() up to the call of statement(): the token it dispatches on.
Dispatched == AfterLabel(SkipEOL(tokenizer_))

Dispatches(kind) ==
    /\ pc = "running"
    /\ ~finished(tokenizer_)
    /\ ~finished(SkipEOL(tokenizer_))
    /\ StatementKind(Dispatched.tok) = kind

\* The effect of the statement r on the object, and the history of it.
Commit(kind, r) ==
    /\ tokenizer_' = r.t
    /\ variables_' = r.vars
    /\ memory_' = r.mem
    /\ out' = r.out
    /\ execution_finished_' = r.fin
    /\ err' = r.err
    /\ warnings' = IF warnings + r.warn < MaxCount THEN warnings + r.warn ELSE MaxCount
    /\ pc' = IF r.err # NoErr THEN "raised"
             ELSE IF r.fin THEN "returned" ELSE "running"
    /\ last' = [kind |-> kind, line |-> LineOf(SkipEOL(tokenizer_).pos),
                target |-> r.target, taken |-> r.taken, outLen |-> Len(out)]
    /\ prev' = last
    /\ nexec' = [nexec EXCEPT ![LineOf(SkipEOL(tokenizer_).pos)] = Saturate(@)]
    /\ step' = 1 - step
    /\ UNCHANGED <<src, line_positions_, skip_to_line_, target_line_>>

RemStatement ==
    /\ Dispatches("REM")
    /\ \E t \in {Dispatched} : \E r \in {statement(t)} : Commit("REM", r)

PrintStatement ==
    /\ Dispatches("PRINT")
    /\ \E t \in {Dispatched} : \E r \in {statement(t)} : Commit("PRINT", r)

IfStatement ==
    /\ Dispatches("IF")
    /\ \E t \in {Dispatched} : \E r \in {statement(t)} : Commit("IF", r)

GotoStatement ==
    /\ Dispatches("GOTO")
    /\ \E t \in {Dispatched} : \E r \in {statement(t)} : Commit("GOTO", r)

LetStatement ==
    /\ Dispatches("LET")
    /\ \E t \in {Dispatched} : \E r \in {statement(t)} : Commit("LET", r)

UnrecognizedStatement ==
    /\ Dispatches("other")
    /\ \E t \in {Dispatched} : \E r \in {statement(t)} : Commit("other", r)

Next ==
    \/ BuildLineMap
    \/ TokenizerFinished
    \/ LineStatementEof
    \/ RemStatement
    \/ PrintStatement
    \/ IfStatement
    \/ GotoStatement
    \/ LetStatement
    \/ UnrecognizedStatement

Spec == Init /\ [][Next]_vars

\* run() is one sequential thread: as long as it has neither returned nor
\* raised it takes its next step.  Next is enabled exactly in those states
\* and every step of Next flips step, so this is weak fairness of Next.
Proceeds ==
    /\ pc \in {"constructed", "running"}
    /\ step' = 1 - step

FairSpec == Spec /\ WF_step(Proceeds)

(***************************************************************************)
(* The Tokenizer on its own, driven as tests/unit/tokenizer_test.cc and    *)
(* the -debug mode of main.cc drive it: any sequence of next_token(),      *)
(* skip_to_eol() and reset() calls.  The history keeps the call and the    *)
(* tokenizer it was made on.                                               *)
(***************************************************************************)
\* The keywords of the grammar and every upper/lower-case spelling of a word.
Keywords == {"LET", "IF", "THEN", "PRINT", "REM", "GOTO"}

RECURSIVE Spellings(_)
Spellings(word) ==
    IF word = "" THEN {""}
    ELSE {c \o rest : c \in {SubSeq(word, 1, 1), tolower(SubSeq(word, 1, 1))},
                      rest \in Spellings(SubSeq(word, 2, Len(word)))}

KeywordLine(spelling) == "10 " \o spelling \o " a"
KeywordLines == {KeywordLine(s) : s \in UNION {Spellings(k) : k \in Keywords}}

\* Texts with each line terminator, alone, doubled, after blanks and inside a
\* string literal.
LineEndTexts ==
    {"a" \o b \o t \o c : b \in {"", " ", "\t "},
                           t \in {"\n", "\r", "\r\n", "\n\r", "\r\r\n", "\n\n"},
                           c \in {"", " b", "7"}}
    \cup {"PRINT \"x\ny\" \n", "PRINT \"x\r\ny\"\r7", "\r\n10 REM\r"}

\* Runs of 1, 18, 19, 20, 21 and 40 digits with leading zeros, at the end of
\* the text or followed by a blank, a line end or a letter.
Zeros17 == "00000000000000000"
DigitRuns ==
    {z \o d : z \in {"", Zeros17, Zeros17 \o "0", Zeros17 \o "00", Zeros17 \o "000",
                      Zeros17 \o Zeros17 \o "00000"},
              d \in {"7", "12"}}
DigitRunTexts == {"a=" \o r \o e : r \in DigitRuns, e \in {"", " b", "\n", "c"}}

\* String literals of 2, 50, 51 and 54 characters, closed or not, after `a=`.
Ten == "abcdefghij"
Fifty == Ten \o Ten \o Ten \o Ten \o Ten
StringTexts ==
    {"a=\"" \o body \o tail : body \in {"ab", Fifty, Fifty \o "x", Fifty \o "xy z"},
                            tail \in {"", "\"", "\" ;7", "\"  \n"}}

TokPrograms ==
    Scenarios
    \cup StringTexts
    \cup {Label(1) \o " " \o b \o e : b \in PlainBodies, e \in {"", "\n", "\r\n  "}}
    \cup KeywordLines
    \cup LineEndTexts
    \cup DigitRunTexts

TokInit ==
    /\ src \in TokPrograms
    /\ tokenizer_ = Tokenizer
    /\ variables_ = [l \in Letters |-> 0]
    /\ memory_ = <<>>
    /\ line_positions_ = {}
    /\ execution_finished_ = FALSE
    /\ out = ""
    /\ err = NoErr
    /\ warnings = 0
    /\ pc = "lexing"
    /\ last = [kind |-> "Tokenizer", before |-> Tokenizer]
    /\ prev = NoStmt
    /\ nexec = <<>>
    /\ step = 0
    /\ skip_to_line_ = FALSE
    /\ target_line_ = -1

TokFrame ==
    UNCHANGED <<src, variables_, memory_, line_positions_, execution_finished_,
                out, err, warnings, pc, prev, nexec, step, skip_to_line_, target_line_>>

CallNextToken ==
    /\ pc = "lexing"
    /\ tokenizer_' = next_token(tokenizer_)
    /\ last' = [kind |-> "next_token", before |-> tokenizer_]
    /\ TokFrame

CallSkipToEol ==
    /\ pc = "lexing"
    /\ tokenizer_' = skip_to_eol(tokenizer_)
    /\ last' = [kind |-> "skip_to_eol", before |-> tokenizer_]
    /\ TokFrame

CallReset ==
    /\ pc = "lexing"
    /\ tokenizer_' = reset(tokenizer_)
    /\ last' = [kind |-> "reset", before |-> tokenizer_]
    /\ TokFrame

TokNext ==
    \/ CallNextToken
    \/ CallSkipToEol
    \/ CallReset

TokSpec == TokInit /\ [][TokNext]_vars

(***************************************************************************)
(* The cursor on its own: a caller of IO that mixes next(), reset() and    *)
(* seek() (io.h 35-43, io.cc 54, 118-141).  The cursor is tokenizer_.pos;  *)
(* no token is lexed, so tok stays "none".                                 *)
(***************************************************************************)
IOTexts == {"", "1", "10", "10 ", "AB\n", "PRINT"}
SeekOffsets == -2 .. 7
Whences == {"beg", "cur", "end"}

\* std::advance(current_pos_, n) from offset p.  Moving a string iterator
\* outside [begin(), end()] is undefined: an unchecked build does the pointer
\* arithmetic and goes on, a build with checked iterators stops the process.
advance(p, n) ==
    IF p + n \in 0 .. Len(src)
    THEN {[pos |-> p + n, pc |-> "cursor"]}
    ELSE {[pos |-> p + n, pc |-> "cursor"], [pos |-> p, pc |-> "aborted"]}

\* the bounds check that ends seek (io.cc 135-140)
Clamp(p) == IF p < 0 THEN 0 ELSE IF p > Len(src) THEN Len(src) ELSE p

Clamped(o) == [pos |-> IF o.pc = "cursor" THEN Clamp(o.pos) ELSE o.pos, pc |-> o.pc]

\* IO::seek(offset, whence): the set of outcomes
seek(p, offset, whence) ==
    CASE whence = "beg" -> {Clamped(o) : o \in advance(0, offset)}
      [] whence = "cur" -> {Clamped(o) : o \in advance(p, offset)}
      [] whence = "end" -> {Clamped(o) : o \in advance(Len(src), -offset)}

IOInit ==
    /\ src \in IOTexts
    /\ tokenizer_ = Tok(0, "none", NoData)
    /\ variables_ = [l \in Letters |-> 0]
    /\ memory_ = <<>>
    /\ line_positions_ = {}
    /\ execution_finished_ = FALSE
    /\ out = ""
    /\ err = NoErr
    /\ warnings = 0
    /\ pc = "cursor"
    /\ last = [kind |-> "IO", before |-> 0, offset |-> 0, whence |-> "beg"]
    /\ prev = NoStmt
    /\ nexec = <<>>
    /\ step = 0
    /\ skip_to_line_ = FALSE
    /\ target_line_ = -1

IOFrame ==
    UNCHANGED <<src, variables_, memory_, line_positions_, execution_finished_,
                out, err, warnings, prev, nexec, step, skip_to_line_, target_line_>>

Moves(kind, o, offset, whence) ==
    /\ tokenizer_' = Tok(o.pos, "none", NoData)
    /\ pc' = o.pc
    /\ last' = [kind |-> kind, before |-> tokenizer_.pos, offset |-> offset, whence |-> whence]
    /\ IOFrame

CallIoNext ==
    /\ pc = "cursor"
    /\ Moves("next", [pos |-> io_next(tokenizer_.pos), pc |-> "cursor"], 0, "cur")

CallIoReset ==
    /\ pc = "cursor"
    /\ Moves("reset", [pos |-> io_reset, pc |-> "cursor"], 0, "beg")

CallIoSeek ==
    /\ pc = "cursor"
    /\ \E offset \in SeekOffsets, whence \in Whences :
           \E o \in seek(tokenizer_.pos, offset, whence) :
               Moves("seek", o, offset, whence)

IONext ==
    \/ CallIoNext
    \/ CallIoReset
    \/ CallIoSeek

IOSpec == IOInit /\ [][IONext]_vars

(***************************************************************************)
(* VVTBI (vvtbi.cc), the earlier variant of the interpreter.  It is        *)
(* written against the Tokenizer of tokenizer.cc (int get_num(), peek_char *)
(* returning io_->peek(), the character under the cursor).  The programs   *)
(* it is run on here use upper-case keywords, one-letter variables, short  *)
(* literals, no brackets and no blanks before the end of input; on such    *)
(* text tokenizer.cc and tokenizer1.cc yield the same tokens and leave the *)
(* cursor after the blanks that follow a number, so the Tokenizer above    *)
(* stands for both and only peek_char is taken from tokenizer.cc.          *)
(* Statements yield the same record as those of SUBARUU; taken says that   *)
(* jump_linenum was called.                                                *)
(***************************************************************************)
E_Positioning == "Internal Error: Line positioning failure"

\* Tokenizer::peek_char (tokenizer.cc 84) -> IO::peek (io.cc 150-156)
VVTBI_peek_char(t) == io_current(t.pos)

VVTBI_is_valid_line_number(t, num) ==
    /\ num >= 10
    /\ num % 10 = 0
    /\ \/ finished(t)
       \/ VVTBI_peek_char(t) \in {" ", "\n", "\r"}

VVTBI_is_line_number(t) ==
    /\ t.tok = "NUMBER"
    /\ get_num(t) >= 10
    /\ get_num(t) % 10 = 0
    /\ VVTBI_peek_char(t) \in {" ", "\n", "\r"}

VVTBI_safe_divide(t, numerator, denominator, w) ==
    IF denominator = 0 THEN Val(t, 0, w + 1)
    ELSE Val(t, Quotient(numerator, denominator), w)

RECURSIVE VVTBI_factor(_, _), VVTBI_TermLoop(_), VVTBI_term(_, _),
          VVTBI_ExpressionLoop(_), VVTBI_expression(_, _)

VVTBI_factor(t, w) ==
    IF t.tok = "NUMBER" THEN Local(next_token(t), LAMBDA t1 : Val(t1, get_num(t), w))
    ELSE IF t.tok = "LETTER"
    THEN Local(next_token(t), LAMBDA t1 : Val(t1, variables_[tolower(t.data.str)], w))
    ELSE IF t.tok = "LEFT_PAREN"
    THEN Local(next_token(t), LAMBDA t1 :
         Local(VVTBI_expression(t1, w), LAMBDA e :
             IF e.err # NoErr THEN e
             ELSE Local(accept(e.t, "RIGHT_PAREN", e.warn), LAMBDA a :
                      IF a.err # NoErr THEN a ELSE Val(a.t, e.val, a.warn))))
    ELSE Throw(t, E_Factor, w)

VVTBI_TermLoop(r) ==
    IF r.err # NoErr THEN r
    ELSE IF r.t.tok = "ASTERISK" \/ r.t.tok = "SLASH"
    THEN Local(next_token(r.t), LAMBDA t1 :
         Local(VVTBI_factor(t1, r.warn), LAMBDA rhs :
             IF rhs.err # NoErr THEN rhs
             ELSE IF r.t.tok = "ASTERISK"
                  THEN Local(Val(rhs.t, r.val * rhs.val, rhs.warn), LAMBDA product :
                           VVTBI_TermLoop(product))
                  ELSE Local(VVTBI_safe_divide(rhs.t, r.val, rhs.val, rhs.warn),
                             LAMBDA quotient : VVTBI_TermLoop(quotient))))
    ELSE r

VVTBI_term(t, w) == Local(VVTBI_factor(t, w), LAMBDA f : VVTBI_TermLoop(f))

VVTBI_ExpressionLoop(r) ==
    IF r.err # NoErr THEN r
    ELSE IF r.t.tok = "PLUS" \/ r.t.tok = "MINUS"
    THEN Local(next_token(r.t), LAMBDA t1 :
         Local(VVTBI_term(t1, r.warn), LAMBDA rhs :
             IF rhs.err # NoErr THEN rhs
             ELSE IF r.t.tok = "PLUS"
                  THEN Local(Val(rhs.t, r.val + rhs.val, rhs.warn), LAMBDA sum :
                           VVTBI_ExpressionLoop(sum))
                  ELSE Local(Val(rhs.t, r.val - rhs.val, rhs.warn), LAMBDA difference :
                           VVTBI_ExpressionLoop(difference))))
    ELSE r

VVTBI_expression(t, w) ==
    Local(VVTBI_term(t, w), LAMBDA result :
        IF result.err # NoErr THEN result
        ELSE IF /\ result.t.tok = "NUMBER"
                /\ VVTBI_is_valid_line_number(result.t, get_num(result.t))
        THEN result
        ELSE VVTBI_ExpressionLoop(result))

VVTBI_relation(t, w) ==
    Local(VVTBI_expression(t, w), LAMBDA left :
        IF left.err # NoErr THEN left
        ELSE IF left.t.tok \in {"EQUAL", "LT", "GT", "LT_EQ", "GT_EQ", "NOT_EQUAL"}
        THEN Local(next_token(left.t), LAMBDA t1 :
             Local(VVTBI_expression(t1, left.warn), LAMBDA right :
                 IF right.err # NoErr THEN right
                 ELSE Val(right.t, Bool(Compare(left.t.tok, left.val, right.val)),
                          right.warn)))
        ELSE Val(left.t, Bool(left.val # 0), left.warn))

VVTBI_let_statement(t) ==
    IF t.tok # "LETTER" THEN Thrown(Throw(t, E_VarName, 0))
    ELSE Local(accept(next_token(t), "EQUAL", 0), LAMBDA eq :
             IF eq.err # NoErr THEN Thrown(eq)
             ELSE Local(VVTBI_expression(eq.t, eq.warn), LAMBDA value :
                      IF value.err # NoErr THEN Thrown(value)
                      ELSE Stmt(value.t,
                                [variables_ EXCEPT ![tolower(t.data.str)] = value.val],
                                memory_, out, execution_finished_, NoErr, value.warn,
                                0, FALSE)))

\* One turn of the loop of build_line_map: every NUMBER token that passes
\* is_valid_line_number is recorded.
VVTBI_MapStep(scan) ==
    [t |-> next_token(scan.t),
     map |-> IF /\ scan.t.tok = "NUMBER"
                /\ VVTBI_is_valid_line_number(scan.t, get_num(scan.t))
             THEN scan.map \cup {get_num(scan.t)}
             ELSE scan.map]

RECURSIVE VVTBI_MapLoop(_)
VVTBI_MapLoop(scan) ==
    IF finished(scan.t) THEN scan ELSE VVTBI_MapLoop(VVTBI_MapStep(scan))

VVTBI_build_line_map(t) == VVTBI_MapLoop([t |-> reset(t), map |-> {}]).map

\* The search of find_linenum: the first NUMBER token equal to linenum.
RECURSIVE VVTBI_FindLoop(_, _)
VVTBI_FindLoop(t, linenum) ==
    IF finished(t) THEN [t |-> t, found |-> FALSE]
    ELSE IF t.tok = "NUMBER" /\ get_num(t) = linenum
         THEN [t |-> next_token(t), found |-> TRUE]
         ELSE VVTBI_FindLoop(next_token(t), linenum)

\* The line map as find_linenum uses it: built when it is still empty.
VVTBI_LineMap(t) ==
    IF line_positions_ = {} THEN VVTBI_build_line_map(t) ELSE line_positions_

\* map is the line map as this call finds or builds it, VVTBI_LineMap.
find_linenum(t, linenum, w, map) ==
    IF linenum \notin map
    THEN Stmt(IF line_positions_ = {} THEN reset(t) ELSE t, variables_, memory_, out,
              execution_finished_, E_NotFound(linenum), w, linenum, TRUE)
    ELSE Local(VVTBI_FindLoop(reset(t), linenum), LAMBDA f :
             Stmt(f.t, variables_, memory_, out, execution_finished_,
                  IF f.found THEN NoErr ELSE E_Positioning, w, linenum, TRUE))

\* skip_to_line_ and target_line_ are set by the step that commits the result.
jump_linenum(t, linenum, w, map) == find_linenum(t, linenum, w, map)

VVTBI_if_statement(t, map) ==
    Local(accept(t, "IF", 0), LAMBDA a1 :
        IF a1.err # NoErr THEN Thrown(a1)
        ELSE Local(VVTBI_relation(a1.t, a1.warn), LAMBDA cond :
                 IF cond.err # NoErr THEN Thrown(cond)
                 ELSE Local(accept(cond.t, "THEN", cond.warn), LAMBDA a2 :
                          IF a2.err # NoErr THEN Thrown(a2)
                          ELSE IF a2.t.tok # "NUMBER"
                          THEN Thrown(Throw(a2.t, E_Then, a2.warn))
                          ELSE IF cond.val # 0
                          THEN jump_linenum(next_token(a2.t), get_num(a2.t), a2.warn, map)
                          ELSE Local(next_token(a2.t), LAMBDA t3 :
                                   Stmt(IF t3.tok = "EOL" THEN next_token(t3) ELSE t3,
                                        variables_, memory_, out, execution_finished_,
                                        NoErr, a2.warn, get_num(a2.t), FALSE)))))

VVTBI_goto_statement(t, map) ==
    Local(accept(t, "GOTO", 0), LAMBDA a1 :
        IF a1.err # NoErr THEN Thrown(a1)
        ELSE Local(accept(a1.t, "NUMBER", 0), LAMBDA a2 :
                 IF a2.err # NoErr THEN Thrown(a2)
                 ELSE Local(accept(a2.t, "EOL", 0), LAMBDA a3 :
                          IF a3.err # NoErr THEN Thrown(a3)
                          ELSE jump_linenum(a3.t, get_num(a1.t), 0, map))))

\* The item loop of print_statement; a separator writes nothing.
RECURSIVE VVTBI_PrintLoop(_, _, _, _)
VVTBI_PrintLoop(t, need_space, o, w) ==
    IF finished(t) \/ is_statement_end(t.tok) \/ VVTBI_is_line_number(t)
    THEN [t |-> t, out |-> o, err |-> NoErr, warn |-> w]
    ELSE IF t.tok = "STRING"
    THEN VVTBI_PrintLoop(next_token(t), TRUE,
                         o \o (IF need_space THEN " " ELSE "") \o get_string(t), w)
    ELSE IF t.tok = "SEPARATOR"
    THEN VVTBI_PrintLoop(next_token(t), FALSE, o, w)
    ELSE IF t.tok \in {"LETTER", "NUMBER", "LEFT_PAREN"}
    THEN Local(VVTBI_expression(t, w), LAMBDA e :
             IF e.err # NoErr
             THEN [t |-> e.t, out |-> o \o (IF need_space THEN " " ELSE ""),
                   err |-> e.err, warn |-> e.warn]
             ELSE VVTBI_PrintLoop(e.t, TRUE,
                                  o \o (IF need_space THEN " " ELSE "") \o ToDecimal(e.val),
                                  e.warn))
    ELSE [t |-> t, out |-> o, err |-> NoErr, warn |-> w]

VVTBI_print_statement(t) ==
    Local(accept(t, "PRINT", 0), LAMBDA a :
        IF a.err # NoErr THEN Thrown(a)
        ELSE Local(VVTBI_PrintLoop(a.t, FALSE, out, 0), LAMBDA p :
                 IF p.err # NoErr
                 THEN Stmt(p.t, variables_, memory_, p.out, execution_finished_, p.err,
                           p.warn, 0, FALSE)
                 ELSE Stmt(IF ~VVTBI_is_line_number(p.t) /\ p.t.tok = "EOL"
                           THEN next_token(p.t) ELSE p.t,
                           variables_, memory_, p.out \o "\n",
                           IF ~VVTBI_is_line_number(p.t) /\ p.t.tok = "EOF_TOKEN"
                           THEN TRUE ELSE execution_finished_,
                           NoErr, p.warn, 0, FALSE)))

VVTBI_statement(t, map) ==
    IF t.tok = "REM" THEN Local(skip_to_eol(t), LAMBDA t1 : Moved(t1, 0))
    ELSE IF t.tok = "PRINT" THEN VVTBI_print_statement(t)
    ELSE IF t.tok = "IF" THEN VVTBI_if_statement(t, map)
    ELSE IF t.tok = "GOTO" THEN VVTBI_goto_statement(t, map)
    ELSE IF t.tok = "LET"
    THEN Local(accept(t, "LET", 0), LAMBDA a :
             IF a.err # NoErr THEN Thrown(a) ELSE VVTBI_let_statement(a.t))
    ELSE IF t.tok = "LETTER" THEN VVTBI_let_statement(t)
    ELSE Thrown(Throw(t, E_Statement, 0))

VVTBI_line_statement(t, map) ==
    IF finished(SkipEOL(t))
    THEN Stmt(SkipEOL(t), variables_, memory_, out, TRUE, NoErr, 0, 0, FALSE)
    ELSE VVTBI_statement(AfterLabel(SkipEOL(t)), map)

\* "Skip to next line" of run(): up to the EOL token and past it.
RECURSIVE VVTBI_SkipLine(_)
VVTBI_SkipLine(t) ==
    IF t.tok # "EOL" /\ ~finished(t) THEN VVTBI_SkipLine(next_token(t))
    ELSE IF t.tok = "EOL" THEN next_token(t) ELSE t

VVTBI_Loop ==
    "REM t\n10 LET a = 1\n20 IF a < 3 THEN 40\n30 PRINT \"No\"\n40 LET a = a + 1\n50 IF a < 3 THEN 20\n60 PRINT \"Done\"\n"
VVTBI_Forward == "REM t\n10 LET a = 5\n20 IF a > 3 THEN 40\n30 PRINT \"No\"\n40 PRINT \"Test passed\"\n"
VVTBI_Goto == "10 PRINT \"a\"\n20 GOTO 40\n30 PRINT \"b\"\n40 PRINT \"c\"\n"
VVTBI_GotoBack == "10 LET a = a + 1\n20 IF a > 1 THEN 40\n30 GOTO 10\n40 PRINT a\n"

VVTBI_Programs == {VVTBI_Loop, VVTBI_Forward, VVTBI_Goto, VVTBI_GotoBack, HelloWorld, IfForward, IfLoop, ValueOfA, DivideByZero, GotoSelf, GotoBack, GotoBackOnce, CountDown} \cup RelPrograms \cup ZeroDivisions

(***************************************************************************)
(* VVTBI::run() (vvtbi.cc 40-86): one action per turn of its loop.         *)
(***************************************************************************)
VVTBI_Init ==
    /\ src \in VVTBI_Programs
    /\ tokenizer_ = Tokenizer
    /\ variables_ = [l \in Letters |-> 0]
    /\ memory_ = <<>>
    /\ line_positions_ = {}
    /\ execution_finished_ = FALSE
    /\ out = ""
    /\ err = NoErr
    /\ warnings = 0
    /\ pc = "running"
    /\ last = NoStmt
    /\ prev = NoStmt
    /\ nexec = [l \in 1..LineOf(Len(src)) |-> 0]
    /\ step = 0
    /\ skip_to_line_ = FALSE
    /\ target_line_ = -1

\* The effect of line_statement() with result r, called with skip and target
\* as the two search members; map is what find_linenum leaves as the line map
\* if it is called.
VVTBI_Commit(r, map, skip, target) ==
    /\ tokenizer_' = r.t
    /\ variables_' = r.vars
    /\ memory_' = r.mem
    /\ out' = r.out
    /\ execution_finished_' = r.fin
    /\ err' = r.err
    /\ warnings' = IF warnings + r.warn < MaxCount THEN warnings + r.warn ELSE MaxCount
    /\ line_positions_' = IF r.taken THEN map ELSE line_positions_
    /\ skip_to_line_' = IF r.taken THEN TRUE ELSE skip
    /\ target_line_' = IF r.taken THEN r.target ELSE target
    /\ pc' = IF r.err # NoErr THEN "raised"
             ELSE IF r.fin THEN "returned" ELSE "running"
    /\ last' = [kind |-> IF finished(SkipEOL(tokenizer_)) THEN "none"
                         ELSE StatementKind(Dispatched.tok),
                line |-> LineOf(SkipEOL(tokenizer_).pos),
                target |-> r.target, taken |-> r.taken, outLen |-> Len(out)]
    /\ prev' = last
    /\ nexec' = [nexec EXCEPT ![LineOf(SkipEOL(tokenizer_).pos)] = Saturate(@)]
    /\ step' = 1 - step
    /\ UNCHANGED src

VVTBI_Frame ==
    UNCHANGED <<src, variables_, memory_, line_positions_, out, err, warnings,
                last, prev, nexec, skip_to_line_, target_line_>>

\* if (tokenizer_->finished()) { execution_finished_ = true; break; }
VVTBI_TokenizerFinished ==
    /\ pc = "running"
    /\ finished(tokenizer_)
    /\ execution_finished_' = TRUE
    /\ pc' = "returned"
    /\ step' = 1 - step
    /\ UNCHANGED tokenizer_
    /\ VVTBI_Frame

VVTBI_LineStatement ==
    /\ pc = "running"
    /\ ~finished(tokenizer_)
    /\ ~skip_to_line_
    /\ \E map \in {VVTBI_LineMap(tokenizer_)} :
           \E r \in {VVTBI_line_statement(tokenizer_, map)} :
               VVTBI_Commit(r, map, skip_to_line_, target_line_)

\* The search meets the number it looks for: the line is executed.
VVTBI_TargetLine ==
    /\ pc = "running"
    /\ ~finished(tokenizer_)
    /\ skip_to_line_
    /\ tokenizer_.tok = "NUMBER"
    /\ get_num(tokenizer_) = target_line_
    /\ \E map \in {VVTBI_LineMap(tokenizer_)} :
           \E r \in {VVTBI_line_statement(tokenizer_, map)} :
               VVTBI_Commit(r, map, FALSE, -1)

\* The search meets another number, or a line without a number: the line is skipped.
VVTBI_SkipsLine ==
    /\ pc = "running"
    /\ ~finished(tokenizer_)
    /\ skip_to_line_
    /\ ~(tokenizer_.tok = "NUMBER" /\ get_num(tokenizer_) = target_line_)
    /\ tokenizer_' = VVTBI_SkipLine(tokenizer_)
    /\ pc' = pc
    /\ step' = 1 - step
    /\ UNCHANGED execution_finished_
    /\ VVTBI_Frame

VVTBI_Next ==
    \/ VVTBI_TokenizerFinished
    \/ VVTBI_LineStatement
    \/ VVTBI_TargetLine
    \/ VVTBI_SkipsLine

VVTBI_Spec == VVTBI_Init /\ [][VVTBI_Next]_vars

(***************************************************************************)
(* Properties.                                                             *)
(***************************************************************************)
Ended == pc \in {"returned", "raised"}

StartsWith(s, prefix) == Len(s) >= Len(prefix) /\ SubSeq(s, 1, Len(prefix)) = prefix

\* C1: under the default policy a division by zero is never fatal: the
\* quotient is 0, one warning is written per such division, and run() goes
\* on; every program PRINT n/d with d evaluating to 0, `PRINT 5/0` among
\* them, prints `0` and a newline and returns normally, and `LET b = 5/0 + 1`
\* stores 0 + 1.
C1_DivideByZeroYieldsZero ==
    /\ err # E_DivZero
    /\ (src \in ZeroDivisions /\ Ended) =>
           /\ pc = "returned"
           /\ out = "0\n"
           /\ err = NoErr
           /\ warnings = 1
    /\ (StartsWith(src, "10 LET b = 5/0 + 1") /\ last.kind = "LET" /\ last.line = 1) =>
           /\ variables_["b"] = 1
           /\ warnings = 1
           /\ err = NoErr

C1_Witness ==
    /\ src = DivideByZero
    /\ pc = "returned"
    /\ out = "0\n"
    /\ warnings = 1

(***************************************************************************)
(* Labels read off the program text, independently of the tokenizer scan   *)
(* of find_target_line.                                                    *)
(***************************************************************************)
\* The offset at which physical line k starts, scanning on from offset p.
RECURSIVE LineStart(_, _)
LineStart(k, p) ==
    IF k <= 1 \/ p >= Len(src) THEN p
    ELSE LineStart(IF IsLineEnd(p + 1) THEN k - 1 ELSE k, p + 1)

NumLines == LineOf(Len(src))

\* The decimal number physical line k starts with, -1 if it starts with none.
LabelOf(k) ==
    Local(NumberLoop(SkipBlanks(LineStart(k, 0)), ""), LAMBDA n :
        IF n.num_str = "" THEN -1 ELSE DecimalValue(n.num_str, 0))

\* Physical line k is the first one labelled L.
FirstLabelled(k, L) ==
    /\ k \in 1..NumLines
    /\ LabelOf(k) = L
    /\ \A j \in 1..(k - 1) : LabelOf(j) # L

\* C2: when a GOTO, or an IF whose relation is true, names a target L of
\* the line index, the jump succeeds and the next statement executed is the
\* one of the first line labelled L, be it after or before the jumping line,
\* so nothing in between runs; the forward scenario prints `yes` only, and
\* the loop scenario prints `done` only with line 40 run exactly twice and
\* line 30 never.
C2_JumpReachesTarget ==
    /\ (last.taken /\ last.target \in line_positions_) =>
           /\ err = NoErr
           /\ pc = "running"
    /\ (prev.taken /\ prev.target \in line_positions_) =>
           FirstLabelled(last.line, prev.target)
    /\ (src = IfForward /\ Ended) =>
           /\ pc = "returned"
           /\ out = "yes\n"
           /\ nexec[3] = 0
    /\ (src = IfLoop /\ Ended) =>
           /\ pc = "returned"
           /\ out = "done\n"
           /\ nexec[3] = 0
           /\ nexec[4] = 2

C2_Witness ==
    /\ src = IfLoop
    /\ prev.kind = "IF" /\ prev.taken /\ prev.line = 5
    /\ last.kind = "IF" /\ last.line = 2
    /\ nexec[2] = 2

\* C3: a GOTO, or an IF whose relation is true, whose target is not a key
\* of the line index raises the "line number not found" runtime error; the
\* failing jump is the last statement ever executed, it writes nothing, and
\* run() has no further step.
C3_UndefinedTargetIsFatal ==
    /\ (last.taken /\ last.target \notin line_positions_) =>
           /\ pc = "raised"
           /\ err = E_NotFound(last.target)
           /\ Len(out) = last.outLen
    /\ StartsWith(err, "Runtime Error") =>
           /\ last.kind \in {"GOTO", "IF"}
           /\ last.taken
           /\ last.target \notin line_positions_
    /\ pc = "raised" => ~ENABLED Next

C3_Witness ==
    /\ pc = "raised"
    /\ err = E_NotFound(last.target)
    /\ last.kind = "IF"
    /\ prev.kind = "PRINT"
    /\ out # ""

\* The statement most recently executed jumped to its own or an earlier line.
BackJump ==
    /\ last.taken
    /\ err = NoErr
    /\ \E k \in 1..last.line : FirstLabelled(k, last.target)

\* C4 as stated: every run of run() ends, by returning or by raising.
C4_NeverRunsForever == <>Ended

\* C4, amended: run() ends in exactly one of two ways, returned with the
\* halted flag set and no error, or raised with one error and not halted,
\* and takes no step after either; every executed PRINT writes at least its
\* newline; and a run that never ends is one that jumps to its own or an
\* earlier line again and again.
C4_EndsOrLoops ==
    /\ [](Ended =>
            \/ pc = "returned" /\ execution_finished_ /\ err = NoErr
            \/ pc = "raised" /\ ~execution_finished_ /\ err # NoErr)
    /\ [](~Ended => err = NoErr /\ ~execution_finished_)
    /\ []((last.kind = "PRINT" /\ err = NoErr) => Len(out) > last.outLen)
    /\ [][~Ended]_vars
    /\ (<>Ended \/ []<>BackJump)

C4_Witness ==
    /\ src = GotoSelf
    /\ pc = "running"
    /\ BackJump
    /\ nexec[1] >= 2
    /\ out = ""

\* Every token from t to the end of input: kind and payload.
RECURSIVE TokenSequence(_)
TokenSequence(t) ==
    IF finished(t) THEN <<[tok |-> t.tok, data |-> t.data]>>
    ELSE <<[tok |-> t.tok, data |-> t.data]>> \o TokenSequence(next_token(t))

\* C5: after any sequence of next_token(), skip_to_eol() and reset() calls,
\* reset() puts the cursor, the current token and its payload back to what
\* they were after construction, so the tokens lexed from there on are those
\* of a freshly constructed tokenizer, and a second reset() changes nothing.
C5_ResetRestoresConstruction ==
    /\ reset(tokenizer_) = Tokenizer
    /\ last.kind = "reset" =>
           /\ tokenizer_ = Tokenizer
           /\ TokenSequence(tokenizer_) = TokenSequence(Tokenizer)
           /\ reset(tokenizer_) = tokenizer_

C5_Witness ==
    /\ src = DivideByZero
    /\ last.kind = "reset"
    /\ finished(last.before)
    /\ last.before.data.kind = "num"
    /\ tokenizer_.tok = "PRINT"

\* The raw character after the number literal just lexed is a blank or a
\* line terminator, or the input ends there.  token_number leaves the cursor
\* behind the blanks that follow the digits.
LookAhead(t) ==
    \/ io_eof(t.pos)
    \/ io_current(t.pos) \in {"\n", "\r"}
    \/ t.pos > 0 /\ IsBlank(SubSeq(src, t.pos, t.pos))

\* C6 as stated: the line-number predicate accepts the current token iff it
\* is a number >= 10 that is a multiple of 10 and the raw character after
\* the literal is whitespace, a line terminator or the end of input.
C6_LookAheadDecides ==
    is_line_number(tokenizer_) <=>
        /\ tokenizer_.tok = "NUMBER"
        /\ get_num(tokenizer_) >= 10
        /\ get_num(tokenizer_) % 10 = 0
        /\ LookAhead(tokenizer_)

\* C7: LET a = n with n >= 10 a multiple of ten stores n in a: the literal
\* is an operand, not a line boundary, and is no key of the line index,
\* while the leading numbers of the lines are the keys; a following line
\* `20 PRINT a` prints n.
C7_LetStoresTens ==
    \A n \in Tens, e \in LetTails :
        src = LetTen(n, e) =>
            /\ pc # "constructed" =>
                   line_positions_ = IF e = "\n20 PRINT a" THEN {10, 20} ELSE {10}
            /\ nexec[1] > 0 =>
                   /\ variables_["a"] = n
                   /\ err = NoErr
            /\ Ended =>
                   /\ pc = "returned"
                   /\ out = IF e = "\n20 PRINT a" THEN ToDecimal(n) \o "\n" ELSE ""

C7_Witness ==
    /\ src = LetTen(20, "\n20 PRINT a")
    /\ pc = "returned"
    /\ variables_["a"] = 20
    /\ line_positions_ = {10, 20}
    /\ out = "20\n"

\* C8 as stated: a PRINT whose only item is a numeric literal prints the
\* literal's value and a newline, whatever the value, and run() goes on
\* without error.
C8_PrintsEveryLiteral ==
    \A n \in {7, 20} , e \in {"", "\n"} :
        (src = "10 PRINT " \o ToDecimal(n) \o e /\ Ended) =>
            /\ pc = "returned"
            /\ out = ToDecimal(n) \o "\n"
            /\ err = NoErr

\* C9 as stated: a separator writes nothing, so an item after a separator
\* follows the item before it directly.
C9_SeparatorWritesNothing ==
    /\ (src = ValueOfA /\ Ended) => out = "The value of a is: 5\nDone!\n"
    /\ (src = "10 PRINT \"x\", a" /\ Ended) => out = "x0\n"
    /\ (src = "10 PRINT \"x\"; \"y\" 7" /\ Ended) => out = "xy 7\n"

\* C9, amended: a `,` or `;` separator resets the needs-a-leading-space
\* flag and writes one space itself, so an item after a separator is one
\* space away from the item before it (two when the string ends in one).
C9_SeparatorWritesOneSpace ==
    /\ (src = ValueOfA /\ Ended) =>
           /\ pc = "returned"
           /\ out = "The value of a is:  5\nDone!\n"
    /\ \A e \in {"", "\n"} :
           /\ (src = "10 PRINT \"x\", a" \o e /\ Ended) =>
                  /\ pc = "returned"
                  /\ out = "x 0\n"
           /\ (src = "10 PRINT \"x\"; \"y\" 7" \o e /\ Ended) =>
                  /\ pc = "returned"
                  /\ out = "x y 7\n"

C9_Witness ==
    /\ src = ValueOfA
    /\ pc = "returned"
    /\ out = "The value of a is:  5\nDone!\n"

\* C10: the halted flag is set only with the end-of-input token current and
\* the cursor at the end of the text, by the driver loop, by line_statement
\* or by a PRINT, and then run() returns; a running interpreter whose
\* current token is end of input halts in its next step; the flag is never
\* cleared; `10 PRINT "Hello, World!"` is halted after its one statement
\* with output `Hello, World!` and a newline.
C10_HaltedAtEndOfInput ==
    /\ [](execution_finished_ =>
            /\ finished(tokenizer_)
            /\ io_eof(tokenizer_.pos)
            /\ pc = "returned"
            /\ err = NoErr)
    /\ [](pc = "returned" => execution_finished_)
    /\ [][execution_finished_ => execution_finished_']_vars
    /\ [][(pc = "running" /\ finished(tokenizer_)) => execution_finished_']_vars
    /\ [][(~execution_finished_ /\ execution_finished_') =>
            /\ finished(tokenizer_')
            /\ last' = last \/ last'.kind = "PRINT"]_vars
    /\ []((src = HelloWorld /\ Ended) =>
            /\ pc = "returned"
            /\ out = "Hello, World!\n"
            /\ last.kind = "PRINT"
            /\ nexec = <<1>>)

C10_Witness ==
    /\ src = HelloWorld
    /\ execution_finished_
    /\ pc = "returned"
    /\ last.kind = "PRINT"
    /\ out = "Hello, World!\n"

\* C11 as stated: every upper/lower-case spelling of a keyword is lexed as
\* that keyword's token.
C11_AnySpellingIsKeyword ==
    \A k \in Keywords : \A s \in Spellings(k) :
        (src = KeywordLine(s) /\ last.kind = "next_token" /\ last.before = Tokenizer) =>
            tokenizer_.tok = k

\* C11, amended: a spelling of a keyword whose first letter is upper case
\* is lexed as the keyword's token, whatever the case of the other letters,
\* with the blanks after it skipped; a spelling whose first letter is lower
\* case is lexed as the variable token of that one letter.
C11_UpperInitialIsKeyword ==
    \A k \in Keywords : \A s \in Spellings(k) :
        (src = KeywordLine(s) /\ last.kind = "next_token" /\ last.before = Tokenizer) =>
            IF isupper(SubSeq(s, 1, 1))
            THEN /\ tokenizer_.tok = k
                 /\ tokenizer_.pos = Len(src) - 1
            ELSE /\ tokenizer_.tok = "LETTER"
                 /\ tokenizer_.data = ChrData(SubSeq(s, 1, 1))
                 /\ tokenizer_.pos = 4

C11_Witness ==
    /\ src = KeywordLine("PrInt")
    /\ last.kind = "next_token"
    /\ last.before = Tokenizer
    /\ tokenizer_.tok = "PRINT"

\* The text the last lexing call consumed: from the cursor before it (the
\* start of the text for the constructor and reset()) to the cursor after it.
Consumed ==
    SubSeq(src, (IF last.kind = "next_token" THEN last.before.pos ELSE 0) + 1,
           tokenizer_.pos)

OnlyBlanks(s) == \A i \in 1..Len(s) : SubSeq(s, i, i) \in {" ", "\t"}
HasLineEnd(s) == \E i \in 1..Len(s) : SubSeq(s, i, i) \in {"\n", "\r"}

\* The constructor, reset() or a next_token() call that was not at end of
\* input has just lexed a token.
Lexed ==
    /\ pc = "lexing"
    /\ last.kind \in {"Tokenizer", "reset", "next_token"}
    /\ last.kind = "next_token" => ~finished(last.before)

\* C12: a lexing step gives the end-of-line token exactly when the first
\* character after the blanks is \n or \r; it then consumes the blanks and
\* one terminator, \r\n counting as one and never split; a step that gives
\* any other token but a string consumes no line terminator, so skipping
\* blanks never crosses a line end; the three \r\n of a three-line text are
\* three end-of-line tokens.
C12_OneEolPerTerminator ==
    /\ Lexed =>
        /\ tokenizer_.tok = "EOL" <=>
               \E i \in 1..Len(Consumed) :
                   /\ OnlyBlanks(SubSeq(Consumed, 1, i - 1))
                   /\ SubSeq(Consumed, i, i) \in {"\n", "\r"}
        /\ tokenizer_.tok = "EOL" =>
               /\ \E le \in {"\n", "\r", "\r\n"} :
                      /\ Len(Consumed) >= Len(le)
                      /\ SubSeq(Consumed, Len(Consumed) - Len(le) + 1, Len(Consumed)) = le
                      /\ OnlyBlanks(SubSeq(Consumed, 1, Len(Consumed) - Len(le)))
               /\ SubSeq(Consumed, Len(Consumed), Len(Consumed)) = "\r" =>
                      io_current(tokenizer_.pos) # "\n"
        /\ tokenizer_.tok \notin {"EOL", "STRING"} => ~HasLineEnd(Consumed)
    /\ src = GotoBack =>
           Cardinality({i \in DOMAIN TokenSequence(Tokenizer) :
                           TokenSequence(Tokenizer)[i].tok = "EOL"}) = 3

C12_Witness ==
    /\ Lexed
    /\ last.kind = "next_token"
    /\ tokenizer_.tok = "EOL"
    /\ Consumed = "\t \r\n"
    /\ io_current(tokenizer_.pos) = "7"

\* Physical line k is the last one labelled L.
LastLabelled(k, L) ==
    /\ k \in 1..NumLines
    /\ LabelOf(k) = L
    /\ \A j \in (k + 1)..NumLines : LabelOf(j) # L

\* C13 as stated: when a number labels more than one line, a jump to it
\* resumes at the last line carrying the label, so of two lines labelled 20
\* only the second runs after `GOTO 20`.
C13_LastLabelWins ==
    /\ (prev.taken /\ prev.target \in line_positions_) =>
           LastLabelled(last.line, prev.target)
    /\ (src = DuplicateLabel /\ Ended) =>
           /\ out = "y\n"
           /\ nexec[2] = 0
           /\ nexec[3] = 1

\* line_statement is about to consume a leading number as the line's label.
ConsumesLabel ==
    /\ pc = "running"
    /\ SkipEOL(tokenizer_).tok = "NUMBER"

\* C14 as stated: a number that line_statement consumes as a line's label
\* is a key of the line index, so the line labelled 15 is reached by
\* `GOTO 15`.
C14_LabelsAreIndexed ==
    /\ ConsumesLabel => get_num(SkipEOL(tokenizer_)) \in line_positions_
    /\ (src = OddLabel /\ last.kind = "GOTO") => err = NoErr

\* C15: after construction the 26 variables a..z are 0 and the memory is
\* empty; only a LET or assignment statement that does not raise changes a
\* variable or a memory cell: build_line_map, REM, PRINT, IF taken or not,
\* GOTO and its re-lexing from the start of the text leave both as they are.
C15_OnlyLetWrites ==
    /\ [](pc = "constructed" =>
            /\ variables_ = [l \in LowerChars |-> 0]
            /\ Cardinality(DOMAIN variables_) = 26
            /\ memory_ = <<>>)
    /\ [][(variables_' # variables_ \/ memory_' # memory_) =>
            /\ last'.kind = "LET"
            /\ err' = NoErr]_vars
    /\ []((src \in {FrameIf, FrameGoto} /\ nexec[2] > 0) =>
            /\ variables_ = [l \in LowerChars |-> IF l = "a" THEN 4 ELSE 0]
            /\ DOMAIN memory_ = {1}
            /\ memory_[1] = 6)
    /\ []((src = FrameIf /\ Ended) => pc = "returned" /\ out = "4 0\n")
    /\ []((src = FrameGoto /\ Ended) => pc = "returned" /\ out = "6 4\n")

C15_Witness ==
    /\ src = FrameGoto
    /\ prev.kind = "GOTO"
    /\ prev.taken
    /\ last.kind = "REM"
    /\ last.line = 5
    /\ variables_["a"] = 4
    /\ memory_[1] = 6

\* The variable store with the given values of x and y, all others 0.
StoreXY(x, y) == [l \in LowerChars |-> IF l = "x" THEN x ELSE IF l = "y" THEN y ELSE 0]

\* C16: the memory and the variables are separate: no statement changes
\* both, a cell once written stays in the memory and a statement creates at
\* most one cell; in the scenario `LET x[3] = 7` leaves x at 0, `x = 2`
\* leaves the memory as it is, `y = x[3] + x[4]` reads 7 and 0 and creates
\* no cell 4, and `x[3] = y[3] + 1` reads cell 3 under another letter and
\* overwrites it, so the last line prints `8 0 2 7`.
C16_SeparateAddressSpaces ==
    /\ [][~(variables_' # variables_ /\ memory_' # memory_)]_vars
    /\ [][/\ DOMAIN memory_ \subseteq DOMAIN memory_'
          /\ Cardinality(DOMAIN memory_') <= Cardinality(DOMAIN memory_) + 1]_vars
    /\ [](src = MemoryCells =>
            /\ last.line = 1 => variables_ = StoreXY(0, 0) /\ memory_ = [i \in {3} |-> 7]
            /\ last.line = 2 => variables_ = StoreXY(2, 0) /\ memory_ = [i \in {3} |-> 7]
            /\ last.line = 3 => variables_ = StoreXY(2, 7) /\ memory_ = [i \in {3} |-> 7]
            /\ last.line = 4 => variables_ = StoreXY(2, 7) /\ memory_ = [i \in {3} |-> 8]
            /\ last.line = 5 => variables_ = StoreXY(2, 7) /\ memory_ = [i \in {3} |-> 8]
            /\ Ended => pc = "returned" /\ out = "8 0 2 7\n")

C16_Witness ==
    /\ src = MemoryCells
    /\ last.kind = "LET"
    /\ last.line = 3
    /\ variables_["y"] = 7
    /\ DOMAIN memory_ = {3}

\* What the relation of the IF statement about to run evaluates to.
IfRelation == relation(next_token(Dispatched), 0)

\* The comparison written op holds between the numbers l and r.
Holds(l, op, r) ==
    CASE op = "=" -> l = r
      [] op = "<" -> l < r
      [] op = ">" -> l > r
      [] op = "<=" -> l <= r
      [] op = ">=" -> l >= r
      [] op = "<>" -> l # r

\* C17: the relation of an IF evaluates to 0 or 1 and the IF jumps exactly
\* when it is 1; with one of = < > <= >= <> between two operands it is 1
\* exactly when the comparison holds of their values, with no operator
\* exactly when the value is not 0: the program jumps over `PRINT 0` in
\* these cases and in no other.
C17_RelationIsZeroOrOne ==
    /\ [][(Dispatches("IF") /\ IfRelation.err = NoErr) =>
            /\ IfRelation.val \in {0, 1}
            /\ (last'.kind = "IF" /\ err' \notin {E_Then, E_Unexpected}) =>
                   (last'.taken <=> IfRelation.val = 1)]_vars
    /\ [](\A l \in RelLeft, op \in RelOps, r \in RelRight :
            (src = RelProgram(l, op, r) /\ Ended) =>
                /\ pc = "returned"
                /\ out = IF Holds(l, op, r) THEN "1\n" ELSE "0\n1\n")
    /\ [](\A l \in RelLeft \cup {0} :
            (src = TruthProgram(l) /\ Ended) =>
                /\ pc = "returned"
                /\ out = IF l # 0 THEN "1\n" ELSE "0\n1\n")

C17_Witness ==
    /\ src = RelProgram(2, "<=", 2)
    /\ prev.kind = "IF"
    /\ prev.taken
    /\ last.kind = "PRINT"
    /\ pc = "returned"
    /\ out = "1\n"

\* The value the grammar gives to the expression of an ExprProgram.
ExprValue == [p \in ExprPrograms |-> (CHOOSE e \in ExprSet : ExprProgram(e) = p).val]

\* C18: PRINT of an expression prints the value the grammar gives it:
\* `*` and `/` before `+` and `-`, equal precedence from left to right,
\* parentheses first, unary minus before `*` and `/`, and `/` truncating
\* toward zero; with a = 5 and b = 3, a/b is 1, (a+b)*2 is 16 and
\* a*b + 8/2 is 19.
C18_ExpressionMatchesGrammar ==
    /\ (src \in ExprPrograms /\ Ended) =>
           /\ pc = "returned"
           /\ out = ToDecimal(ExprValue[src]) \o "\n"
    /\ (src = "PRINT 2+7*2" /\ Ended) => out = "16\n"
    /\ (src = "PRINT 7-2-2" /\ Ended) => out = "3\n"
    /\ (src = "PRINT 7/2/2" /\ Ended) => out = "1\n"
    /\ (src = "PRINT (2+7)*2" /\ Ended) => out = "18\n"
    /\ (src = "PRINT -7/2" /\ Ended) => out = "-3\n"
    /\ (src = "PRINT 7/-2" /\ Ended) => out = "-3\n"
    /\ (src = "PRINT -7/-2" /\ Ended) => out = "3\n"
    /\ (src = "PRINT (2-7)/2" /\ Ended) => out = "-2\n"
    /\ (src = "PRINT 2--7" /\ Ended) => out = "9\n"
    /\ (src = Arithmetic /\ Ended) =>
           /\ pc = "returned"
           /\ out = "1 16 19\n"

C18_Witness ==
    /\ src = "PRINT (2-7)/2"
    /\ last.kind = "PRINT"
    /\ pc = "returned"
    /\ out = "-2\n"

\* The number of digits in the text from offset q on.
RunLength(q) ==
    CHOOSE n \in 0..(Len(src) - q) :
        /\ \A i \in 1..n : SubSeq(src, q + i, q + i) \in DigitChars
        /\ q + n < Len(src) => SubSeq(src, q + n + 1, q + n + 1) \notin DigitChars

\* The digits s are zeros followed by the decimal text of v.
IsValueOf(v, s) ==
    /\ v >= 0
    /\ Len(ToDecimal(v)) <= Len(s)
    /\ SubSeq(s, Len(s) - Len(ToDecimal(v)) + 1, Len(s)) = ToDecimal(v)
    /\ \A i \in 1..(Len(s) - Len(ToDecimal(v))) : SubSeq(s, i, i) = "0"

\* The offset at which the last lexing call started.
LexedFrom == IF last.kind = "next_token" THEN last.before.pos ELSE 0

\* C19: a lexing call that finds, after blanks, the start of a run of digits
\* gives NUMBER with the decimal value of the whole run when the run has at
\* most 19 digits, leaving the cursor behind the run and the blanks after
\* it, and gives ERROR, with no number in the payload and the cursor 19
\* digits into the run, when the run is longer.
C19_LongDigitRunIsError ==
    Lexed =>
        \A q \in LexedFrom..(Len(src) - 1) :
            (/\ OnlyBlanks(SubSeq(src, LexedFrom + 1, q))
             /\ SubSeq(src, q + 1, q + 1) \in DigitChars
             /\ q > 0 => SubSeq(src, q, q) \notin DigitChars) =>
                IF RunLength(q) <= SUBARUU_NUMBER_LITERAL
                THEN /\ tokenizer_.tok = "NUMBER"
                     /\ tokenizer_.data.kind = "num"
                     /\ IsValueOf(get_num(tokenizer_), SubSeq(src, q + 1, q + RunLength(q)))
                     /\ tokenizer_.pos >= q + RunLength(q)
                     /\ OnlyBlanks(SubSeq(src, q + RunLength(q) + 1, tokenizer_.pos))
                ELSE /\ tokenizer_.tok = "ERROR"
                     /\ tokenizer_.data.kind # "num"
                     /\ tokenizer_.pos = q + SUBARUU_NUMBER_LITERAL

C19_Witness ==
    /\ src = "a=" \o Zeros17 \o "0007" \o " b"
    /\ Lexed
    /\ last.kind = "next_token"
    /\ last.before.tok = "EQUAL"
    /\ tokenizer_.tok = "ERROR"
    /\ tokenizer_.pos = 21

\* A run of exactly 19 digits has just been lexed as one NUMBER.
C19_WitnessNumber ==
    /\ src = "a=" \o Zeros17 \o "12" \o " b"
    /\ Lexed
    /\ last.before.tok = "EQUAL"
    /\ tokenizer_.tok = "NUMBER"
    /\ get_num(tokenizer_) = 12

\* C20 as stated: an ERROR token, or a token that cannot start a statement,
\* that becomes the current token while statements execute is fatal, and
\* nothing is written after it became current: a statement that starts at
\* such a token raises and changes nothing else, `10 GOTO 30 ?` raises at
\* the `?` and prints nothing, and `10 PRINT "x" ?` raises with the output
\* `x` and no newline.
C20_OffendingTokenIsFatal ==
    /\ (last.kind = "other") =>
           /\ pc = "raised"
           /\ err = E_Statement
           /\ Len(out) = last.outLen
    /\ (src = ErrorAfterGoto /\ Ended) =>
           /\ pc = "raised"
           /\ out = ""
    /\ (src = ErrorInPrint /\ Ended) =>
           /\ pc = "raised"
           /\ out = "x"

\* reset() followed by n calls of next()
RECURSIVE NextTimes(_, _)
NextTimes(p, n) == IF n = 0 THEN p ELSE NextTimes(io_next(p), n - 1)

C22_BackwardJumpResumes ==
    /\ (src = VVTBI_Loop /\ Ended) => (pc = "returned" /\ out = "Done\n")
    /\ \A k \in 1..NumLines :
           (/\ prev.kind = "IF"
            /\ prev.taken
            /\ k < prev.line
            /\ FirstLabelled(k, prev.target)
            /\ last.kind # "none") => last.line = k

\* The number of characters between the opening quote at offset q and the
\* closing quote, or the end of the text if there is none.
QuoteLength(q) ==
    CHOOSE n \in 0..(Len(src) - q - 1) :
        /\ \A i \in 1..n : SubSeq(src, q + 1 + i, q + 1 + i) # "\""
        /\ q + 1 + n < Len(src) => SubSeq(src, q + 2 + n, q + 2 + n) = "\""

Min(a, b) == IF a < b THEN a ELSE b

\* C23 as stated: a lexing call that finds, after blanks, an opening quote
\* gives one STRING token whose payload is the first 50 characters of the
\* literal (all of them when it is shorter); lexing resumes behind the
\* closing quote and the blanks after it, however long the literal is, and
\* at the end of input when a literal of at most 50 characters is not closed.
C23_LongLiteralIsOneToken ==
    Lexed =>
        \A q \in LexedFrom..(Len(src) - 1) :
            (/\ OnlyBlanks(SubSeq(src, LexedFrom + 1, q))
             /\ SubSeq(src, q + 1, q + 1) = "\"") =>
                /\ tokenizer_.tok = "STRING"
                /\ get_string(tokenizer_) =
                       SubSeq(src, q + 2, q + 1 + Min(QuoteLength(q), SUBARUU_STRING_LITERAL))
                /\ IF q + 1 + QuoteLength(q) < Len(src)
                   THEN /\ tokenizer_.pos >= q + 2 + QuoteLength(q)
                        /\ OnlyBlanks(SubSeq(src, q + 3 + QuoteLength(q), tokenizer_.pos))
                   ELSE QuoteLength(q) <= SUBARUU_STRING_LITERAL => tokenizer_.pos = Len(src)

\* The tokenizer of the IF statement about to run once its relation was
\* evaluated without error and THEN and the number were consumed.
PastTarget == next_token(next_token(IfRelation.t))

\* Physical line m holds nothing but blanks.
BlankLine(m) ==
    \/ io_eof(SkipBlanks(LineStart(m, 0)))
    \/ io_current(SkipBlanks(LineStart(m, 0))) \in {"\n", "\r"}

\* C24: an IF whose relation evaluates to 0 raises nothing and does not look
\* at the line map, even when its target is no key of it; the tokenizer
\* moves on from where the target number ended, past the EOL token if that
\* is the current one, and is not reset; variables, memory, output and the
\* line map stay as they are; when the EOL token was there, the statement
\* run next is on the first line after the IF that is not blank.  Whatever
\* the relation's value, an IF whose relation is not followed by THEN, or
\* whose THEN is not followed by a number, raises a syntax error.
C24_FalseIfFallsThrough ==
    [][(Dispatches("IF") /\ IfRelation.err = NoErr) =>
          /\ IfRelation.t.tok # "THEN" => (pc' = "raised" /\ err' = E_Unexpected)
          /\ (IfRelation.t.tok = "THEN" /\ next_token(IfRelation.t).tok # "NUMBER") =>
                 (pc' = "raised" /\ err' = E_Then)
          /\ (/\ IfRelation.t.tok = "THEN"
              /\ next_token(IfRelation.t).tok = "NUMBER"
              /\ IfRelation.val = 0) =>
                 /\ err' = NoErr
                 /\ pc' = "running"
                 /\ ~last'.taken
                 /\ tokenizer_' = IF PastTarget.tok = "EOL"
                                  THEN next_token(PastTarget) ELSE PastTarget
                 /\ tokenizer_'.pos > tokenizer_.pos
                 /\ UNCHANGED <<variables_, memory_, out, line_positions_>>
                 /\ (PastTarget.tok = "EOL" /\ ~finished(SkipEOL(tokenizer_'))) =>
                        /\ LineOf(SkipEOL(tokenizer_').pos) > last'.line
                        /\ \A m \in (last'.line + 1)..(LineOf(SkipEOL(tokenizer_').pos) - 1) :
                               BlankLine(m)]_vars

\* A false IF whose target is no key of the line map was followed by the
\* PRINT of the next line.
C24_Witness ==
    /\ prev.kind = "IF"
    /\ ~prev.taken
    /\ prev.target \notin line_positions_
    /\ last.kind = "PRINT"
    /\ last.line = prev.line + 1
    /\ err = NoErr

\* C25: the line map is built in the one step that run() takes first, when
\* no statement has run and nothing was written; that step scans to the end
\* of the input and leaves the tokenizer as reset() leaves it, at the start
\* with the first token current; no later step of the run, whatever
\* statement or jump it is, builds the map again or changes its keys.
C25_LineMapBuiltOnce ==
    [][/\ pc = "constructed" =>
              /\ last = NoStmt /\ out = "" /\ line_positions_ = {}
              /\ finished(MapLoop([t |-> reset(tokenizer_), at_line_start |-> TRUE,
                                   map |-> {}]).t)
              /\ pc' = "running"
              /\ last' = NoStmt
              /\ tokenizer_' = Tokenizer
       /\ pc # "constructed" =>
              /\ pc' # "constructed"
              /\ line_positions_' = line_positions_]_vars

\* A GOTO jumped after a LET, in a program whose line map has two keys.
C25_Witness ==
    /\ last.kind = "GOTO"
    /\ last.taken
    /\ prev.kind \in {"LET", "PRINT", "IF", "REM"}
    /\ Cardinality(line_positions_) >= 2
    /\ err = NoErr

\* C26: finished() holds only with the cursor at the end of the input, and
\* a next_token() or skip_to_eol() call made with the cursor at the end
\* makes it hold; once it holds, next_token() and skip_to_eol() change
\* neither the current token nor the cursor; reset() puts the tokenizer
\* back where the constructor left it, on the first token.
C26_EndOfInputIsAbsorbing ==
    [][/\ finished(tokenizer_) => io_eof(tokenizer_.pos)
       /\ (last'.kind \in {"next_token", "skip_to_eol"} /\ io_eof(tokenizer_.pos)) =>
              finished(tokenizer_')
       /\ (last'.kind \in {"next_token", "skip_to_eol"} /\ finished(tokenizer_)) =>
              /\ tokenizer_'.tok = "EOF_TOKEN"
              /\ tokenizer_'.pos = tokenizer_.pos
              /\ io_eof(tokenizer_'.pos)
       /\ (last'.kind = "reset" /\ finished(tokenizer_)) =>
              tokenizer_' = Tokenizer]_vars

\* next_token() or skip_to_eol() was called on a finished tokenizer of an
\* input that has tokens.
C26_Witness ==
    /\ pc = "lexing"
    /\ last.kind \in {"next_token", "skip_to_eol"}
    /\ finished(last.before)
    /\ finished(tokenizer_)
    /\ ~finished(Tokenizer)

\* The tokenizer t with the first token of the line after its cursor's line
\* as the current one (end of input if that line is the last).
OnFollowingLine(t) ==
    get_next_token([t EXCEPT !.pos = LineStart(LineOf(t.pos) + 1, 0)])

\* C27: the skip_to_eol() of a REM statement, called with the cursor behind
\* the keyword, leaves the tokenizer where lexing from the start of the
\* following physical line leaves it (\n, \r and \r\n each end a line); the
\* current token is then EOL only if that following line is blank and ends
\* with a line end of its own; the REM step raises nothing and changes no
\* variable, memory cell, output, warning count or line map key; and when
\* the text goes on after the REM line's end, finished() is false.
C27_RemSkipsItsLine ==
    [][Dispatches("REM") =>
          /\ tokenizer_' = OnFollowingLine(Dispatched)
          /\ tokenizer_'.pos >= LineStart(LineOf(Dispatched.pos) + 1, 0)
          /\ tokenizer_'.tok = "EOL" =>
                 /\ BlankLine(LineOf(Dispatched.pos) + 1)
                 /\ LineOf(tokenizer_'.pos) > LineOf(Dispatched.pos) + 1
          /\ err' = NoErr
          /\ pc' = "running"
          /\ UNCHANGED <<variables_, memory_, out, warnings, line_positions_,
                         execution_finished_>>
          /\ LineStart(LineOf(Dispatched.pos) + 1, 0) < Len(src) =>
                 ~finished(tokenizer_')]_vars

\* A REM line was run and the PRINT of the line after it ran next.
C27_Witness ==
    /\ prev.kind = "REM"
    /\ last.kind = "PRINT"
    /\ last.line = prev.line + 1
    /\ out # ""
    /\ err = NoErr

\* The tokenizer behind the leading number of physical line k.
BehindLabel(k) ==
    next_token(get_next_token(Tok(LineStart(k, 0), "ERROR", NoData)))

\* C28: no run raises `Internal Error: Failed to find valid line number`:
\* a GOTO, or an IF whose relation is not 0, whose target is a key of the
\* line map raises nothing, and its reset() and find_target_line() leave as
\* the current token the one behind the leading number of a line that
\* carries the target as its label.
C28_PositioningNeverFails ==
    /\ [](~StartsWith(err, "Internal Error"))
    /\ [][\A kind \in {"IF", "GOTO"} :
            (Dispatches(kind) /\ last'.kind = kind /\ last'.taken
               /\ last'.target \in line_positions_) =>
                 /\ err' = NoErr
                 /\ find_target_line(reset(tokenizer_), last'.target).found
                 /\ \E k \in 1..NumLines :
                        /\ LabelOf(k) = last'.target
                        /\ tokenizer_' = BehindLabel(k)]_vars

\* An IF jumped back to an earlier line of the line map and the statement of
\* that line ran again.
C28_Witness ==
    /\ prev.kind = "IF"
    /\ prev.taken
    /\ prev.target \in line_positions_
    /\ last.line < prev.line
    /\ nexec[last.line] >= 2
    /\ err = NoErr

\* The number token t is the first token of a physical line.
LeadsLine(t) ==
    \E k \in 1..NumLines :
        Local(get_next_token(Tok(LineStart(k, 0), "ERROR", NoData)), LAMBDA u :
            u.tok = "NUMBER" /\ u.pos = t.pos)

\* C29 as stated: a number >= 10 and a multiple of 10 that begins a
\* physical line and that line_statement consumes as that line's label is a
\* key of the line map, also after a REM line whose comment holds a `"`.
C29_PreScanAgreesWithExecution ==
    (/\ ConsumesLabel
     /\ is_valid_line_number(get_num(SkipEOL(tokenizer_)))
     /\ LeadsLine(SkipEOL(tokenizer_))) =>
        get_num(SkipEOL(tokenizer_)) \in line_positions_

\* C30: the memory is one mapping from index to value whatever the letter
\* written in front of the brackets: after `LET x[i] = 7` the memory is the
\* one cell i with value 7 and every variable is still 0, and `PRINT y[i]`
\* then writes 7 for every pair of letters x and y, the same or not, and for
\* an index given as a number or as an expression.
C30_LettersShareTheMemory ==
    \A x \in {"a", "m", "z"}, y \in {"a", "n", "z"} :
        \A i \in {[text |-> "0", val |-> 0], [text |-> "3", val |-> 3],
                  [text |-> "1+2", val |-> 3]} :
            src = SharedCell(x, i.text, y) =>
                /\ nexec[1] > 0 =>
                       /\ memory_ = [j \in {i.val} |-> 7]
                       /\ variables_ = [l \in LowerChars |-> 0]
                /\ Ended =>
                       /\ pc = "returned"
                       /\ out = "7 0 0\n"

\* The cell written as m[1+2] was read as z[1+2].
C30_Witness ==
    /\ src = SharedCell("m", "1+2", "z")
    /\ pc = "returned"
    /\ last.kind = "PRINT"
    /\ memory_ = [j \in {3} |-> 7]
    /\ out = "7 0 0\n"

====
